---- MODULE Spec2Model ----
(***************************************************************************)
(* A model of the terraform-provider-azuread resource handlers: the        *)
(* owner/member set reconciliation of applications and groups on the two   *)
(* backends (AAD Graph, MS Graph), the Create and Read handlers, and the   *)
(* service-principal password sub-resource with its named lock.            *)
(*                                                                         *)
(* A handler is a sequential process: pc is its position, every backend    *)
(* call is one step, and a backend call may fail.                          *)
(***************************************************************************)
EXTENDS Integers, Sequences, FiniteSets, TLC

\* Principals that may own an object, and principals that may be members.
IDs == {"A", "B", "C"}
MemberIDs == {"M1", "M2"}

\* At most this many transient backend errors are injected in one behaviour.
MaxFaults == 1

\* A failed pass is retried until every injected error has been met once.
MaxPasses == MaxFaults + 1

\* The object ID of the tracked application / group.
ObjectId == "obj"

VARIABLES
    EnableMsGraphBeta,  \* provider flag: the MS Graph handlers are selected
    kind,               \* the tracked object: "application" or "group"
    exists,             \* the tracked object exists in the backend
    visible,            \* ... and a Get of it already sees it (replicated)
    rels,               \* backend: the object's owners and members
    resId,              \* d.Id(): the resource ID held by Terraform
    st,                 \* d.Get("owners"), d.Get("members") as set by a Read
    op,                 \* the running handler
    pc,                 \* its position
    desired,            \* configuration: owners and members
    cfg,                \* configuration: what else a Create reads
    chg,                \* d.GetOkExists(rel) && d.HasChange(rel), per relationship
    deltaOf,            \* relationship the delta below was computed for
    existing,           \* the existing set as listed by the pass
    toAdd,              \* Difference(desired, existing) as computed
    toRemove,           \* Difference(existing, desired) as computed
    pendAdd,            \* elements an add loop has still to add
    pendRemove,         \* elements a remove loop has still to remove
    waiting,            \* the member whose removal is being waited for
    calls,              \* backend calls issued by the running pass, in order
    err,                \* the handler's error ("none": nil)
    faults,             \* transient errors injected so far
    passes,             \* passes started (1: first run, > 1: retries)
    spExists,           \* backend: which service principals exist
    creds,              \* backend: the password credentials (key IDs) of each
    creds0,             \* the credentials at the start
    locks,              \* the named-lock table: the holder of each name, or 0
    proc                \* the password handlers running concurrently

backendVars == <<EnableMsGraphBeta, kind, exists, visible, rels>>
stateVars == <<resId, st>>
configVars == <<desired, chg, cfg>>
deltaVars == <<deltaOf, existing, toAdd, toRemove, pendAdd, pendRemove, waiting>>
ctlVars == <<op, pc, calls, err, faults, passes>>
passwordVars == <<spExists, creds, creds0, locks, proc>>

vars == <<backendVars, stateVars, configVars, deltaVars, ctlVars, passwordVars>>

Rels == {"owners", "members"}

owners == rels["owners"]
members == rels["members"]

NoRels == [r \in Rels |-> {}]

\* What a handler reads of the configuration besides owners and members:
\* prevent_duplicate_names, whether app_role / oauth2_permissions pass the
\* validation and type / identifier_uris agree, type = "native", whether
\* app_role and oauth2_permissions are set, available_to_other_tenants, and
\* the fields d.HasChange reports (none in a Create).
Cfgs ==
    [prevent_duplicate_names : BOOLEAN, valid : BOOLEAN, native : BOOLEAN,
     app_role : BOOLEAN, oauth2_permissions : BOOLEAN,
     available_to_other_tenants : BOOLEAN, changed : {{}}]

NoCfg ==
    [prevent_duplicate_names |-> FALSE, valid |-> TRUE, native |-> FALSE,
     app_role |-> FALSE, oauth2_permissions |-> FALSE,
     available_to_other_tenants |-> FALSE, changed |-> {}]

(***************************************************************************)
(* utils.Difference: the elements of a that are not in b.  Its result is   *)
(* nil exactly when it is empty.                                           *)
(***************************************************************************)
Difference(a, b) == {x \in a : x \notin b}

\* A backend call on the tracked object: it reports 404 when the object does
\* not exist, succeeds when it exists and has been replicated, may do either
\* until then, and may fail with another error.
CallOutcomes ==
    (IF exists THEN {"ok"} ELSE {})
        \cup (IF exists /\ visible THEN {} ELSE {"notfound"})
        \cup (IF faults < MaxFaults THEN {"error"} ELSE {})

\* A Get of the tracked object.
GetOutcomes == CallOutcomes

Charge(o) == faults' = IF o = "error" THEN faults + 1 ELSE faults

Call(name, rel, arg) == [call |-> name, rel |-> rel, arg |-> arg]

IsAdd(c, rel) ==
    /\ c.rel = rel
    /\ c.call \in {"AddOwner", "AddOwners", "AddMember", "AddMembers"}

IsRemove(c, rel) ==
    /\ c.rel = rel
    /\ c.call \in {"RemoveOwner", "RemoveOwners", "RemoveMember", "RemoveMembers"}

\* return err
Fail(e) ==
    /\ pc' = "done"
    /\ err' = e

\* What a failed call may have applied of its argument before it failed.
Partial(arg) == SUBSET arg

\* The check of prevent_duplicate_names: FindByName / CheckNameAvailability
\* is called when the flag is set; an object found, or an error, is returned.
FindByName(here, next) ==
    /\ pc = here
    /\ IF cfg.prevent_duplicate_names
       THEN \E o \in {"ok", "found"} \cup (IF faults < MaxFaults THEN {"error"} ELSE {}) :
            /\ calls' = Append(calls, Call("FindByName", "object", {}))
            /\ Charge(o)
            /\ IF o = "ok"
               THEN /\ pc' = next
                    /\ err' = err
               ELSE Fail(IF o = "found" THEN "duplicate" ELSE "find")
       ELSE /\ pc' = next
            /\ UNCHANGED <<calls, err, faults>>
    /\ UNCHANGED <<backendVars, stateVars, configVars, passwordVars, deltaVars, op, passes>>

\* A step the configuration does not ask for.
Skip(here, next) ==
    /\ pc = here
    /\ pc' = next
    /\ UNCHANGED <<backendVars, stateVars, configVars, passwordVars, deltaVars, op, calls,
                   err, faults, passes>>

(***************************************************************************)
(* The deltas, as each handler computes them.                              *)
(***************************************************************************)
\* Mutants: the two Difference calls with their arguments exchanged.
ownersToAdd_Swapped(existingOwners, desiredOwners) ==
    Difference(existingOwners, desiredOwners)

guaOwnersForRemoval_Swapped(existingOwners, desiredOwners) ==
    Difference(desiredOwners, existingOwners)

msOwnersToAdd_Swapped(existingOwners, desiredOwners) ==
    Difference(existingOwners, desiredOwners)

\* applicationSetOwnersTo
ownersForRemoval(existingOwners, desiredOwners) == Difference(existingOwners, desiredOwners)

ownersToAdd(existingOwners, desiredOwners) == Difference(desiredOwners, existingOwners)

\* msgraph.ApplicationSetOwners
msOwnersForRemoval(existingOwners, desiredOwners) == Difference(existingOwners, desiredOwners)

msOwnersToAdd(existingOwners, desiredOwners) == Difference(desiredOwners, existingOwners)

\* groupResourceUpdateMsGraph
gumMembersForRemoval(existingMembers, desiredMembers) == Difference(existingMembers, desiredMembers)

gumMembersToAdd(existingMembers, desiredMembers) == Difference(desiredMembers, existingMembers)

gumOwnersForRemoval(existingOwners, desiredOwners) == Difference(existingOwners, desiredOwners)

gumOwnersToAdd(existingOwners, desiredOwners) == Difference(desiredOwners, existingOwners)

\* groupResourceUpdateAadGraph
guaMembersForRemoval(existingMembers, desiredMembers) == Difference(existingMembers, desiredMembers)

guaMembersToAdd(existingMembers, desiredMembers) == Difference(desiredMembers, existingMembers)

guaOwnersForRemoval(existingOwners, desiredOwners) == Difference(existingOwners, desiredOwners)

guaOwnersToAdd(existingOwners, desiredOwners) == Difference(desiredOwners, existingOwners)

\* The delta of a pass is recorded once the existing set has been listed.
SetDelta(rel, listed, add, remove) ==
    /\ deltaOf' = rel
    /\ existing' = listed
    /\ toAdd' = add
    /\ toRemove' = remove
    /\ pendAdd' = add
    /\ pendRemove' = remove
    /\ waiting' = waiting

NoDelta ==
    /\ deltaOf' = "none"
    /\ existing' = {}
    /\ toAdd' = {}
    /\ toRemove' = {}
    /\ pendAdd' = {}
    /\ pendRemove' = {}
    /\ waiting' = "none"

(***************************************************************************)
(* Where a handler continues.                                              *)
(***************************************************************************)
\* groupResourceRead: the router picks the backend's Read.
groupResourceReadEntry == IF EnableMsGraphBeta THEN "grm_get" ELSE "gra_get"

\* After applicationSetOwnersTo / ApplicationSetOwners returned nil.
AfterSetOwners ==
    CASE op \in {"applicationResourceCreate", "applicationResourceUpdate"} -> "ara_get"
      [] op = "applicationResourceCreateMsGraph" -> "arm_get"
      [] OTHER -> "done"

\* groupResourceUpdateMsGraph: after the members block, after the Update call.
gumAfterMembers == IF chg["owners"] THEN "gum_owners_list" ELSE "grm_get"

gumAfterUpdate == IF chg["members"] THEN "gum_members_list" ELSE gumAfterMembers

\* groupResourceUpdateAadGraph: after the members block, at entry.
guaAfterMembers ==
    IF chg["owners"] THEN "gua_owners_list" ELSE groupResourceReadEntry

guaEntry(c) ==
    IF c["members"] THEN "gua_members_list"
    ELSE IF c["owners"] THEN "gua_owners_list"
    ELSE groupResourceReadEntry

\* The first position of a handler run with the change flags c.
StartPc(h, c) ==
    CASE h = "applicationSetOwnersTo" -> "aso_list"
      [] h = "ApplicationSetOwners" -> "mso_list"
      [] h = "groupResourceUpdateMsGraph" -> "gum_find"
      [] h = "groupResourceUpdateAadGraph" -> guaEntry(c)
      [] OTHER -> "done"

(***************************************************************************)
(* The steps the handlers are made of.                                     *)
(***************************************************************************)
\* List the existing set of rel and take add and remove, the handler's two
\* Difference calls on it, as the delta; a failed listing is returned.
ListExisting(here, rel, add, remove, next) ==
    /\ pc = here
    /\ \E o \in CallOutcomes :
        /\ calls' = Append(calls, Call("List", rel, {}))
        /\ Charge(o)
        /\ IF o = "ok"
           THEN /\ SetDelta(rel, rels[rel], add, remove)
                /\ pc' = next
                /\ err' = err
           ELSE /\ Fail("list")
                /\ UNCHANGED deltaVars
    /\ UNCHANGED <<backendVars, stateVars, configVars, passwordVars, op, passes>>

\* A loop issuing one add call per element of the add set; the first failed
\* call is returned.
AddEach(here, rel, name, next) ==
    /\ pc = here
    /\ IF pendAdd = {}
       THEN /\ pc' = next
            /\ UNCHANGED <<rels, pendAdd, calls, err, faults>>
       ELSE \E x \in pendAdd, o \in CallOutcomes :
            /\ calls' = Append(calls, Call(name, rel, {x}))
            /\ Charge(o)
            /\ IF o = "ok"
               THEN /\ rels' = [rels EXCEPT ![rel] = @ \cup {x}]
                    /\ pendAdd' = pendAdd \ {x}
                    /\ UNCHANGED <<pc, err>>
               ELSE /\ \E part \in (IF o = "error" THEN Partial({x}) ELSE {{}}) :
                        rels' = [rels EXCEPT ![rel] = @ \cup part]
                    /\ Fail("add")
                    /\ UNCHANGED pendAdd
    /\ UNCHANGED <<EnableMsGraphBeta, kind, exists, visible, stateVars, configVars, passwordVars,
                   deltaOf, existing, toAdd, toRemove, pendRemove, waiting,
                   op, passes>>

\* Removing x from rel: a 404 also when x is not in the relationship.
RemoveOutcomes(rel, x) ==
    IF x \in rels[rel] THEN CallOutcomes
    ELSE (CallOutcomes \ {"ok"}) \cup {"notfound"}

\* A loop issuing one remove call per element of the remove set; a 404 of
\* the call is skipped, any other error is returned.
RemoveEach(here, rel, name, next) ==
    /\ pc = here
    /\ IF pendRemove = {}
       THEN /\ pc' = next
            /\ UNCHANGED <<rels, pendRemove, calls, err, faults>>
       ELSE \E x \in pendRemove :
            \E o \in RemoveOutcomes(rel, x) :
            /\ calls' = Append(calls, Call(name, rel, {x}))
            /\ Charge(o)
            /\ IF o \in {"ok", "notfound"}
               THEN /\ rels' = IF o = "ok" THEN [rels EXCEPT ![rel] = @ \ {x}] ELSE rels
                    /\ pendRemove' = pendRemove \ {x}
                    /\ UNCHANGED <<pc, err>>
               ELSE /\ \E part \in Partial({x}) :
                        rels' = [rels EXCEPT ![rel] = @ \ part]
                    /\ Fail("remove")
                    /\ UNCHANGED pendRemove
    /\ UNCHANGED <<EnableMsGraphBeta, kind, exists, visible, stateVars, configVars, passwordVars,
                   deltaOf, existing, toAdd, toRemove, pendAdd, waiting,
                   op, passes>>

\* Mutant: the remove call without its nil check.
RemoveAll_NoNilCheck(here, rel, name, next) ==
    /\ pc = here
    /\ \E o \in CallOutcomes :
        /\ calls' = Append(calls, Call(name, rel, toRemove))
        /\ Charge(o)
        /\ IF o = "ok"
           THEN /\ rels' = [rels EXCEPT ![rel] = @ \ toRemove]
                /\ pc' = next
                /\ err' = err
           ELSE /\ UNCHANGED rels
                /\ Fail("remove")
    /\ UNCHANGED <<EnableMsGraphBeta, kind, exists, visible, stateVars, configVars, passwordVars,
                   deltaVars, op, passes>>

\* One remove call for the whole remove set, issued only when the set is
\* not nil; a failed call is returned.
RemoveAll(here, rel, name, next) ==
    /\ pc = here
    /\ IF toRemove = {}
       THEN /\ pc' = next
            /\ UNCHANGED <<rels, calls, err, faults>>
       ELSE \E o \in CallOutcomes :
            /\ calls' = Append(calls, Call(name, rel, toRemove))
            /\ Charge(o)
            /\ IF o = "ok"
               THEN /\ rels' = [rels EXCEPT ![rel] = @ \ toRemove]
                    /\ pc' = next
                    /\ err' = err
               ELSE /\ \E part \in (IF o = "error" THEN Partial(toRemove) ELSE {{}}) :
                        rels' = [rels EXCEPT ![rel] = @ \ part]
                    /\ Fail("remove")
    /\ UNCHANGED <<EnableMsGraphBeta, kind, exists, visible, stateVars, configVars, passwordVars,
                   deltaVars, op, passes>>

\* One add call for the whole add set, issued only when the set is not nil;
\* a failed call is returned.
AddAll(here, rel, name, next) ==
    /\ pc = here
    /\ IF toAdd = {}
       THEN /\ pc' = next
            /\ UNCHANGED <<rels, calls, err, faults>>
       ELSE \E o \in CallOutcomes :
            /\ calls' = Append(calls, Call(name, rel, toAdd))
            /\ Charge(o)
            /\ IF o = "ok"
               THEN /\ rels' = [rels EXCEPT ![rel] = @ \cup toAdd]
                    /\ pc' = next
                    /\ err' = err
               ELSE /\ \E part \in (IF o = "error" THEN Partial(toAdd) ELSE {{}}) :
                        rels' = [rels EXCEPT ![rel] = @ \cup part]
                    /\ Fail("add")
    /\ UNCHANGED <<EnableMsGraphBeta, kind, exists, visible, stateVars, configVars, passwordVars,
                   deltaVars, op, passes>>

\* Mutant: a Get whose 404 returns nil and leaves the resource ID in place.
ReadGet_KeepsId(here, next) ==
    /\ pc = here
    /\ \E o \in GetOutcomes :
        /\ calls' = Append(calls, Call("Get", "object", {o}))
        /\ Charge(o)
        /\ CASE o = "ok" -> /\ pc' = next
                            /\ err' = err
             [] o = "notfound" -> /\ pc' = "done"
                                  /\ err' = "none"
             [] OTHER -> Fail("read")
    /\ UNCHANGED <<backendVars, stateVars, configVars, passwordVars, deltaVars, op, passes>>

\* The Get of a Read: a 404 clears the resource ID and returns nil, any
\* other error is returned.
ReadGet(here, next) ==
    /\ pc = here
    /\ \E o \in GetOutcomes :
        /\ calls' = Append(calls, Call("Get", "object", {o}))
        /\ Charge(o)
        /\ CASE o = "ok" -> /\ pc' = next
                            /\ UNCHANGED <<resId, err>>
             [] o = "notfound" -> /\ resId' = ""
                                  /\ pc' = "done"
                                  /\ err' = "none"
             [] OTHER -> /\ Fail("read")
                         /\ UNCHANGED resId
    /\ UNCHANGED <<backendVars, st, configVars, passwordVars, deltaVars, op, passes>>

\* A listing of a Read, stored in the state; a failed listing is returned.
ReadList(here, rel, next) ==
    /\ pc = here
    /\ \E o \in CallOutcomes :
        /\ Charge(o)
        /\ IF o = "ok"
           THEN /\ st' = [st EXCEPT ![rel] = rels[rel]]
                /\ pc' = next
                /\ err' = err
           ELSE /\ Fail("read")
                /\ UNCHANGED st
    /\ UNCHANGED <<backendVars, resId, configVars, passwordVars, deltaVars, op, calls, passes>>

(***************************************************************************)
(* applicationSetOwnersTo (AAD Graph): owners are added first, then the    *)
(* owners for removal are removed one by one.                              *)
(***************************************************************************)
\* Mutant: the removals started right after the listing, the additions
\* left out.
applicationSetOwnersTo_List_RemoveFirst ==
    ListExisting("aso_list", "owners",
                 ownersToAdd(rels["owners"], desired["owners"]),
                 ownersForRemoval(rels["owners"], desired["owners"]),
                 "aso_remove")

applicationSetOwnersTo_List ==
    ListExisting("aso_list", "owners",
                 ownersToAdd(rels["owners"], desired["owners"]),
                 ownersForRemoval(rels["owners"], desired["owners"]),
                 "aso_add")

applicationSetOwnersTo_AddOwners ==
    AddEach("aso_add", "owners", "AddOwner", "aso_remove")

applicationSetOwnersTo_RemoveOwner ==
    RemoveEach("aso_remove", "owners", "RemoveOwner", AfterSetOwners)

(***************************************************************************)
(* msgraph.ApplicationSetOwners (MS Graph): RemoveOwners, then AddOwners.  *)
(***************************************************************************)
ApplicationSetOwners_List ==
    ListExisting("mso_list", "owners",
                 msOwnersToAdd(rels["owners"], desired["owners"]),
                 msOwnersForRemoval(rels["owners"], desired["owners"]),
                 "mso_remove")

ApplicationSetOwners_RemoveOwners ==
    RemoveAll("mso_remove", "owners", "RemoveOwners", "mso_add")

ApplicationSetOwners_AddOwners ==
    AddAll("mso_add", "owners", "AddOwners", AfterSetOwners)

(***************************************************************************)
(* groupResourceUpdateMsGraph: the Update call, the members block, the     *)
(* owners block, then the Read.                                            *)
(***************************************************************************)
\* GroupCheckNameAvailability, when display_name changes.
groupResourceUpdateMsGraph_CheckNameAvailability ==
    IF "display_name" \in cfg.changed
    THEN FindByName("gum_find", "gum_update")
    ELSE Skip("gum_find", "gum_update")

groupResourceUpdateMsGraph_Update ==
    /\ pc = "gum_update"
    /\ \E o \in CallOutcomes :
        /\ calls' = Append(calls, Call("Update", "object",
                                       cfg.changed \cap {"display_name", "description"}))
        /\ Charge(o)
        /\ IF o = "ok"
           THEN /\ pc' = gumAfterUpdate
                /\ err' = err
           ELSE Fail("update")
    /\ UNCHANGED <<backendVars, stateVars, configVars, passwordVars, deltaVars, op, passes>>

groupResourceUpdateMsGraph_ListMembers ==
    ListExisting("gum_members_list", "members",
                 gumMembersToAdd(rels["members"], desired["members"]),
                 gumMembersForRemoval(rels["members"], desired["members"]),
                 "gum_members_remove")

groupResourceUpdateMsGraph_RemoveMembers ==
    RemoveAll("gum_members_remove", "members", "RemoveMembers", "gum_members_add")

groupResourceUpdateMsGraph_AddMembers ==
    AddAll("gum_members_add", "members", "AddMembers", gumAfterMembers)

groupResourceUpdateMsGraph_ListOwners ==
    ListExisting("gum_owners_list", "owners",
                 gumOwnersToAdd(rels["owners"], desired["owners"]),
                 gumOwnersForRemoval(rels["owners"], desired["owners"]),
                 "gum_owners_remove")

groupResourceUpdateMsGraph_RemoveOwners ==
    RemoveAll("gum_owners_remove", "owners", "RemoveOwners", "gum_owners_add")

groupResourceUpdateMsGraph_AddOwners ==
    AddAll("gum_owners_add", "owners", "AddOwners", "grm_get")

(***************************************************************************)
(* groupResourceUpdateAadGraph: the members block (each removal followed   *)
(* by its WaitForListRemove, then GroupAddMembers), the owners block       *)
(* (RemoveOwner one by one, then GroupAddOwners), then groupResourceRead.  *)
(***************************************************************************)
groupResourceUpdateAadGraph_ListMembers ==
    ListExisting("gua_members_list", "members",
                 guaMembersToAdd(rels["members"], desired["members"]),
                 guaMembersForRemoval(rels["members"], desired["members"]),
                 "gua_members_remove")

\* aadgraph.GroupRemoveMember of the next member for removal.
groupResourceUpdateAadGraph_RemoveMember ==
    /\ pc = "gua_members_remove"
    /\ IF pendRemove = {}
       THEN /\ pc' = "gua_members_add"
            /\ UNCHANGED <<rels, waiting, calls, err, faults>>
       ELSE \E x \in pendRemove, o \in CallOutcomes :
            /\ calls' = Append(calls, Call("RemoveMember", "members", {x}))
            /\ Charge(o)
            /\ IF o = "ok"
               THEN /\ rels' = [rels EXCEPT !["members"] = @ \ {x}]
                    /\ waiting' = x
                    /\ pc' = "gua_members_wait"
                    /\ err' = err
               ELSE /\ \E part \in (IF o = "error" THEN Partial({x}) ELSE {{}}) :
                        rels' = [rels EXCEPT !["members"] = @ \ part]
                    /\ Fail("remove")
                    /\ UNCHANGED waiting
    /\ UNCHANGED <<EnableMsGraphBeta, kind, exists, visible, stateVars, configVars, passwordVars,
                   deltaOf, existing, toAdd, toRemove, pendAdd, pendRemove,
                   op, passes>>

\* aadgraph.WaitForListRemove: polls GroupAllMembers until the removed
\* member is gone from the list, or gives up.
groupResourceUpdateAadGraph_WaitForListRemove ==
    /\ pc = "gua_members_wait"
    /\ \E o \in (IF waiting \notin members THEN CallOutcomes \ {"notfound"}
                 ELSE CallOutcomes \ {"ok", "notfound"}) :
        /\ calls' = Append(calls, Call("WaitForListRemove", "members", {waiting}))
        /\ Charge(o)
        /\ IF o = "ok"
           THEN /\ pendRemove' = pendRemove \ {waiting}
                /\ waiting' = "none"
                /\ pc' = "gua_members_remove"
                /\ err' = err
           ELSE /\ Fail("wait")
                /\ UNCHANGED <<pendRemove, waiting>>
    /\ UNCHANGED <<backendVars, stateVars, configVars, passwordVars, deltaOf, existing, toAdd,
                   toRemove, pendAdd, op, passes>>

groupResourceUpdateAadGraph_AddMembers ==
    AddEach("gua_members_add", "members", "AddMember", guaAfterMembers)

groupResourceUpdateAadGraph_ListOwners ==
    ListExisting("gua_owners_list", "owners",
                 guaOwnersToAdd(rels["owners"], desired["owners"]),
                 guaOwnersForRemoval(rels["owners"], desired["owners"]),
                 "gua_owners_remove")

groupResourceUpdateAadGraph_RemoveOwner ==
    RemoveEach("gua_owners_remove", "owners", "RemoveOwner", "gua_owners_add")

groupResourceUpdateAadGraph_AddOwners ==
    AddEach("gua_owners_add", "owners", "AddOwner", groupResourceReadEntry)

(***************************************************************************)
(* The group Reads.                                                        *)
(***************************************************************************)
groupResourceReadMsGraph_Get == ReadGet("grm_get", "grm_owners")

groupResourceReadMsGraph_ListOwners == ReadList("grm_owners", "owners", "grm_members")

groupResourceReadMsGraph_ListMembers == ReadList("grm_members", "members", "done")

groupResourceReadAadGraph_Get == ReadGet("gra_get", "gra_members")

groupResourceReadAadGraph_AllMembers == ReadList("gra_members", "members", "gra_owners")

groupResourceReadAadGraph_AllOwners == ReadList("gra_owners", "owners", "done")

(***************************************************************************)
(* The service-principal password resource.  Its handlers run concurrently *)
(* with one another; each is a process p with its own position.            *)
(***************************************************************************)
\* The service principals the passwords belong to, the key IDs, the handlers.
Parents == {"sp1", "sp2"}
Keys == {"k0", "k1", "k2"}
Procs == {1, 2}

servicePrincipalResourceName == "azuread_service_principal"

groupMemberResourceName == "azuread_group_member"

\* A resource ID is a string, kept as the sequence of its tokens: the
\* separator "/" and the IDs, which are UUIDs and hold no separator.
\* strings.Split(s, "/")
RECURSIVE Split(_)
Split(s) ==
    IF \A i \in 1..Len(s) : s[i] # "/" THEN <<s>>
    ELSE LET i == CHOOSE k \in 1..Len(s) : s[k] = "/" /\ \A j \in 1..(k - 1) : s[j] # "/"
         IN <<SubSeq(s, 1, i - 1)>> \o Split(SubSeq(s, i + 1, Len(s)))

\* graph.CredentialIdFrom
CredentialIdFrom(objectId, typ, keyId) ==
    [ObjectId |-> objectId, Type |-> typ, KeyId |-> keyId]

\* Mutant: the String of the ID with the key ID before the type.
CredentialIdString_KeyFirst(id) == <<id.ObjectId, "/", id.KeyId, "/", id.Type>>

\* The String of the ID: ObjectId + "/" + Type + "/" + KeyId.
CredentialIdString(id) == <<id.ObjectId, "/", id.Type, "/", id.KeyId>>

NoCredentialId == CredentialIdFrom("", "", "")

\* The parse of a sub-resource ID: three parts of one ID each, the second
\* one the expected type.
ParseSubResourceIdOk(s, typ) ==
    /\ Len(Split(s)) = 3
    /\ \A k \in 1..3 : Len(Split(s)[k]) = 1
    /\ Split(s)[2] = <<typ>>

\* graph.ParsePasswordId
ParsePasswordIdOk(s) == ParseSubResourceIdOk(s, "password")

ParsePasswordId(s) ==
    IF ParsePasswordIdOk(s)
    THEN CredentialIdFrom(Split(s)[1][1], Split(s)[2][1], Split(s)[3][1])
    ELSE NoCredentialId

\* msgraph.GroupMemberIdFrom: the sub-resource ID of type "member", and the
\* two IDs.
ObjectSubResourceIdFrom(objectId, typ, subId) ==
    [objectId |-> objectId, Type |-> typ, subId |-> subId]

GroupMemberIdFrom(groupId, memberId) ==
    [ObjectSubResourceId |-> ObjectSubResourceIdFrom(groupId, "member", memberId),
     GroupId |-> groupId, MemberId |-> memberId]

\* The String of the ID: objectId + "/" + Type + "/" + subId.
GroupMemberIdString(id) ==
    <<id.ObjectSubResourceId.objectId, "/", id.ObjectSubResourceId.Type, "/",
      id.ObjectSubResourceId.subId>>

\* ParseGroupMemberId
ParseGroupMemberId(s) ==
    IF ParseSubResourceIdOk(s, "member")
    THEN GroupMemberIdFrom(Split(s)[1][1], Split(s)[3][1])
    ELSE GroupMemberIdFrom("", "")

\* graph.PasswordCredentialResultAdd, ...FindByKeyId, ...RemoveByKeyId on the
\* key IDs of a credential list.
PasswordCredentialResultAddOk(existingCreds, keyId) == keyId \notin existingCreds

PasswordCredentialResultAdd(existingCreds, keyId) == existingCreds \cup {keyId}

PasswordCredentialResultFindByKeyId(credentials, keyId) == keyId \in credentials

PasswordCredentialResultRemoveByKeyId(existingCreds, keyId) == existingCreds \ {keyId}

\* The names of the lock table: resource name and object name.
LockNames ==
    ({servicePrincipalResourceName} \X (Parents \cup Keys))
        \cup ({groupMemberResourceName} \X ({ObjectId} \cup MemberIDs))

\* Mutant: the lock taken on the key ID instead of the parent's object ID.
LockName_ByKeyId(p) == <<servicePrincipalResourceName, proc[p].cid.KeyId>>

\* Mutant: each group-member handler taking a lock of its own.
LockName_PerHandler(p) ==
    IF proc[p].op \in {"member_create", "member_delete"}
    THEN <<groupMemberResourceName, IF p = 1 THEN "M1" ELSE "M2">>
    ELSE <<servicePrincipalResourceName, proc[p].cid.ObjectId>>

\* tf.LockByName(servicePrincipalResourceName, id.ObjectId) of the password
\* handlers, tf.LockByName(groupMemberResourceName, groupID) of the
\* group-member handlers.
LockName(p) ==
    IF proc[p].op \in {"member_create", "member_delete"}
    THEN <<groupMemberResourceName, proc[p].cid.GroupId>>
    ELSE <<servicePrincipalResourceName, proc[p].cid.ObjectId>>

\* A handler that is not running.
Off ==
    [op |-> "none", pc |-> "off", objectId |-> "", keyId |-> "", id |-> <<>>,
     cid |-> NoCredentialId, existing |-> {}, locked |-> FALSE, stale |-> FALSE,
     err |-> "none"]

PasswordIdle ==
    /\ spExists = [s \in Parents |-> TRUE]
    /\ creds = [s \in Parents |-> {}]
    /\ creds0 = creds
    /\ locks = [n \in LockNames |-> 0]
    /\ proc = [p \in Procs |-> Off]

\* Everything but the password resource and the fault budget.
mainVars == <<backendVars, stateVars, configVars, deltaVars, op, pc, calls, err, passes>>

\* A call on the service principal sp.
SpOutcomes(sp) ==
    (IF spExists[sp] THEN {"ok"} ELSE {"notfound"})
        \cup (IF faults < MaxFaults THEN {"error"} ELSE {})

Goto(p, next) == [proc EXCEPT ![p] = [@ EXCEPT !.pc = next]]

\* Mutant: a return that leaves the lock taken.
Return_KeepsLock(p, e, id) ==
    /\ proc' = [proc EXCEPT ![p] = [@ EXCEPT !.pc = "done", !.err = e, !.id = id,
                                             !.locked = proc[p].locked /\ e # "none"]]
    /\ locks' = IF proc[p].locked /\ e = "none"
                THEN [locks EXCEPT ![LockName(p)] = 0] ELSE locks

\* return e; the deferred tf.UnlockByName runs when the lock has been taken.
Return(p, e, id) ==
    /\ proc' = [proc EXCEPT ![p] = [@ EXCEPT !.pc = "done", !.err = e, !.id = id,
                                             !.locked = FALSE]]
    /\ locks' = IF proc[p].locked THEN [locks EXCEPT ![LockName(p)] = 0] ELSE locks

\* tf.LockByName blocks until the name is free.
LockByName(p, here, next) ==
    /\ proc[p].pc = here
    /\ locks[LockName(p)] = 0
    /\ locks' = [locks EXCEPT ![LockName(p)] = p]
    /\ proc' = [proc EXCEPT ![p] = [@ EXCEPT !.pc = next, !.locked = TRUE]]
    /\ UNCHANGED <<mainVars, spExists, creds, creds0, faults>>

\* client.ListPasswordCredentials(ctx, id.ObjectId); an error is returned.
ListPasswordCredentials(p, here, next) ==
    /\ proc[p].pc = here
    /\ \E o \in SpOutcomes(proc[p].cid.ObjectId) :
        /\ Charge(o)
        /\ IF o = "ok"
           THEN /\ proc' = [proc EXCEPT ![p] =
                       [@ EXCEPT !.pc = next, !.existing = creds[proc[p].cid.ObjectId]]]
                /\ UNCHANGED locks
           ELSE Return(p, "list", proc[p].id)
    /\ UNCHANGED <<mainVars, spExists, creds, creds0>>

\* client.UpdatePasswordCredentials(ctx, objectId, newCreds) replaces the whole
\* list; a failed call may or may not have been applied.  The Create then
\* sets the resource ID.
UpdatePasswordCredentials(p, here, newCreds, id, next) ==
    /\ proc[p].pc = here
    /\ \E o \in SpOutcomes(proc[p].cid.ObjectId) :
        /\ Charge(o)
        /\ CASE o = "ok" ->
                    /\ creds' = [creds EXCEPT ![proc[p].cid.ObjectId] = newCreds]
                    /\ IF next = "done"
                       THEN Return(p, "none", id)
                       ELSE /\ proc' = [proc EXCEPT ![p] = [@ EXCEPT !.pc = next, !.id = id]]
                            /\ UNCHANGED locks
             [] o = "error" ->
                    /\ \E applied \in BOOLEAN :
                        creds' = IF applied
                                 THEN [creds EXCEPT ![proc[p].cid.ObjectId] = newCreds]
                                 ELSE creds
                    /\ Return(p, "update", proc[p].id)
             [] OTHER ->
                    /\ UNCHANGED creds
                    /\ Return(p, "update", proc[p].id)
    /\ UNCHANGED <<mainVars, spExists, creds0>>

\* client.Get(ctx, id.ObjectId) of the parent; on 404 the handler returns nil,
\* with the resource ID id.
GetParent(p, here, next, id) ==
    /\ proc[p].pc = here
    /\ \E o \in SpOutcomes(proc[p].cid.ObjectId) :
        /\ Charge(o)
        /\ CASE o = "ok" -> /\ proc' = Goto(p, next)
                            /\ UNCHANGED locks
             [] o = "notfound" -> Return(p, "none", id)
             [] OTHER -> Return(p, "get", proc[p].id)
    /\ UNCHANGED <<mainVars, spExists, creds, creds0>>

\* servicePrincipalPasswordResourceCreate
servicePrincipalPasswordResourceCreate_Credential(p) ==
    /\ proc[p].pc = "c_cred"
    /\ \E valid \in BOOLEAN :
        IF valid
        THEN /\ proc' = [proc EXCEPT ![p] = [@ EXCEPT !.pc = "c_lock",
                    !.cid = CredentialIdFrom(proc[p].objectId, "password", proc[p].keyId)]]
             /\ UNCHANGED locks
        ELSE Return(p, "credential", proc[p].id)
    /\ UNCHANGED <<mainVars, spExists, creds, creds0, faults>>

servicePrincipalPasswordResourceCreate_Lock(p) == LockByName(p, "c_lock", "c_list")

servicePrincipalPasswordResourceCreate_List(p) ==
    ListPasswordCredentials(p, "c_list", "c_add")

\* Mutant: the already-exists error of the add passed over.
servicePrincipalPasswordResourceCreate_ResultAdd_Ignored(p) ==
    /\ proc[p].pc = "c_add"
    /\ proc' = Goto(p, "c_update")
    /\ UNCHANGED locks
    /\ UNCHANGED <<mainVars, spExists, creds, creds0, faults>>

servicePrincipalPasswordResourceCreate_ResultAdd(p) ==
    /\ proc[p].pc = "c_add"
    /\ IF PasswordCredentialResultAddOk(proc[p].existing, proc[p].cid.KeyId)
       THEN /\ proc' = Goto(p, "c_update")
            /\ UNCHANGED locks
       ELSE Return(p, "exists", proc[p].id)
    /\ UNCHANGED <<mainVars, spExists, creds, creds0, faults>>

\* Mutant: the Create sending the new credential alone.
servicePrincipalPasswordResourceCreate_Update_OnlyNew(p) ==
    UpdatePasswordCredentials(p, "c_update", {proc[p].cid.KeyId},
        CredentialIdString(proc[p].cid), "c_wait")

servicePrincipalPasswordResourceCreate_Update(p) ==
    UpdatePasswordCredentials(p, "c_update",
        PasswordCredentialResultAdd(proc[p].existing, proc[p].cid.KeyId),
        CredentialIdString(proc[p].cid), "c_wait")

\* graph.WaitForPasswordCredentialReplication: polls the list until the key
\* is in it, or gives up.
servicePrincipalPasswordResourceCreate_Wait(p) ==
    /\ proc[p].pc = "c_wait"
    /\ \E o \in (IF proc[p].cid.KeyId \in creds[proc[p].cid.ObjectId]
                 THEN SpOutcomes(proc[p].cid.ObjectId)
                 ELSE {"timeout"}) :
        /\ Charge(o)
        /\ IF o = "ok"
           THEN /\ proc' = Goto(p, "r_parse")
                /\ UNCHANGED locks
           ELSE Return(p, "wait", proc[p].id)
    /\ UNCHANGED <<mainVars, spExists, creds, creds0>>

\* servicePrincipalPasswordResourceRead
servicePrincipalPasswordResourceRead_Parse(p) ==
    /\ proc[p].pc = "r_parse"
    /\ IF ParsePasswordIdOk(proc[p].id)
       THEN /\ proc' = [proc EXCEPT ![p] =
                   [@ EXCEPT !.pc = "r_get", !.cid = ParsePasswordId(proc[p].id)]]
            /\ UNCHANGED locks
       ELSE Return(p, "parse", proc[p].id)
    /\ UNCHANGED <<mainVars, spExists, creds, creds0, faults>>

servicePrincipalPasswordResourceRead_Get(p) == GetParent(p, "r_get", "r_list", <<>>)

servicePrincipalPasswordResourceRead_List(p) ==
    ListPasswordCredentials(p, "r_list", "r_find")

servicePrincipalPasswordResourceRead_Find(p) ==
    /\ proc[p].pc = "r_find"
    /\ IF PasswordCredentialResultFindByKeyId(proc[p].existing, proc[p].cid.KeyId)
       THEN Return(p, "none", proc[p].id)
       ELSE Return(p, "none", <<>>)
    /\ UNCHANGED <<mainVars, spExists, creds, creds0, faults>>

\* servicePrincipalPasswordResourceDelete
servicePrincipalPasswordResourceDelete_Parse(p) ==
    /\ proc[p].pc = "d_parse"
    /\ IF ParsePasswordIdOk(proc[p].id)
       THEN /\ proc' = [proc EXCEPT ![p] =
                   [@ EXCEPT !.pc = "d_lock", !.cid = ParsePasswordId(proc[p].id)]]
            /\ UNCHANGED locks
       ELSE Return(p, "parse", proc[p].id)
    /\ UNCHANGED <<mainVars, spExists, creds, creds0, faults>>

servicePrincipalPasswordResourceDelete_Lock(p) == LockByName(p, "d_lock", "d_get")

servicePrincipalPasswordResourceDelete_Get(p) ==
    GetParent(p, "d_get", "d_list", proc[p].id)

servicePrincipalPasswordResourceDelete_List(p) ==
    ListPasswordCredentials(p, "d_list", "d_update")

servicePrincipalPasswordResourceDelete_Update(p) ==
    UpdatePasswordCredentials(p, "d_update",
        PasswordCredentialResultRemoveByKeyId(proc[p].existing, proc[p].cid.KeyId),
        proc[p].id, "done")

(***************************************************************************)
(* The group-member resource of the AAD Graph backend.  Its handlers run   *)
(* concurrently like the password handlers; the group is the tracked       *)
(* object and its members are rels["members"].                             *)
(***************************************************************************)
\* What the member handlers leave alone of the tracked object.
memberFrame ==
    <<EnableMsGraphBeta, kind, exists, visible, stateVars, configVars, deltaVars,
      op, pc, calls, err, passes, spExists, creds, creds0>>

\* What a listing of the members returns: the members, and the removed ones
\* whose removal the listing does not show yet.
Listed ==
    rels["members"] \cup {proc[q].cid.MemberId : q \in {r \in Procs : proc[r].stale}}

\* aadgraph.GroupAllMembers(ctx, client, groupID); an error is returned.
GroupAllMembers(p, here, next) ==
    /\ proc[p].pc = here
    /\ \E o \in CallOutcomes :
        /\ Charge(o)
        /\ IF o = "ok"
           THEN /\ proc' = [proc EXCEPT ![p] = [@ EXCEPT !.pc = next, !.existing = Listed]]
                /\ UNCHANGED locks
           ELSE Return(p, "list", proc[p].id)
    /\ UNCHANGED <<memberFrame, rels>>

\* strings.EqualFold on member IDs: "m1" is "M1" in another case.
EqualFold(v, w) ==
    (IF v = "m1" THEN "M1" ELSE v) = (IF w = "m1" THEN "M1" ELSE w)

\* groupMemberResourceCreateAadGraph
groupMemberResourceCreateAadGraph_Id(p) ==
    /\ proc[p].pc = "mc_id"
    /\ proc' = [proc EXCEPT ![p] = [@ EXCEPT !.pc = "mc_lock",
                   !.cid = GroupMemberIdFrom(proc[p].objectId, proc[p].keyId)]]
    /\ UNCHANGED <<memberFrame, rels, locks, faults>>

groupMemberResourceCreateAadGraph_Lock(p) == LockByName(p, "mc_lock", "mc_list")

groupMemberResourceCreateAadGraph_AllMembers(p) == GroupAllMembers(p, "mc_list", "mc_exists")

groupMemberResourceCreateAadGraph_Exists(p) ==
    /\ proc[p].pc = "mc_exists"
    /\ IF \E v \in proc[p].existing : EqualFold(v, proc[p].keyId)
       THEN Return(p, "exists", proc[p].id)
       ELSE /\ proc' = Goto(p, "mc_add")
            /\ UNCHANGED locks
    /\ UNCHANGED <<memberFrame, rels, faults>>

\* aadgraph.GroupAddMember, then d.SetId(id.String()) and the Read.
groupMemberResourceCreateAadGraph_AddMember(p) ==
    /\ proc[p].pc = "mc_add"
    /\ \E o \in CallOutcomes :
        /\ Charge(o)
        /\ CASE o = "ok" ->
                    /\ rels' = [rels EXCEPT !["members"] = @ \cup {proc[p].keyId}]
                    /\ proc' = [proc EXCEPT ![p] = [@ EXCEPT !.pc = "mr_parse",
                                   !.id = GroupMemberIdString(proc[p].cid)]]
                    /\ UNCHANGED locks
             [] o = "error" ->
                    /\ \E part \in Partial({proc[p].keyId}) :
                        rels' = [rels EXCEPT !["members"] = @ \cup part]
                    /\ Return(p, "add", proc[p].id)
             [] OTHER ->
                    /\ UNCHANGED rels
                    /\ Return(p, "add", proc[p].id)
    /\ UNCHANGED memberFrame

\* groupMemberResourceReadAadGraph
groupMemberResourceReadAadGraph_Parse(p) ==
    /\ proc[p].pc = "mr_parse"
    /\ IF ParseSubResourceIdOk(proc[p].id, "member")
       THEN /\ proc' = [proc EXCEPT ![p] =
                   [@ EXCEPT !.pc = "mr_list", !.cid = ParseGroupMemberId(proc[p].id)]]
            /\ UNCHANGED locks
       ELSE Return(p, "parse", proc[p].id)
    /\ UNCHANGED <<memberFrame, rels, faults>>

groupMemberResourceReadAadGraph_AllMembers(p) == GroupAllMembers(p, "mr_list", "mr_find")

groupMemberResourceReadAadGraph_Find(p) ==
    /\ proc[p].pc = "mr_find"
    /\ IF \E objectID \in proc[p].existing : EqualFold(objectID, proc[p].cid.MemberId)
       THEN Return(p, "none", proc[p].id)
       ELSE Return(p, "none", <<>>)
    /\ UNCHANGED <<memberFrame, rels, faults>>

\* groupMemberResourceDeleteAadGraph
groupMemberResourceDeleteAadGraph_Parse(p) ==
    /\ proc[p].pc = "md_parse"
    /\ IF ParseSubResourceIdOk(proc[p].id, "member")
       THEN /\ proc' = [proc EXCEPT ![p] =
                   [@ EXCEPT !.pc = "md_lock", !.cid = ParseGroupMemberId(proc[p].id)]]
            /\ UNCHANGED locks
       ELSE Return(p, "parse", proc[p].id)
    /\ UNCHANGED <<memberFrame, rels, faults>>

groupMemberResourceDeleteAadGraph_Lock(p) == LockByName(p, "md_lock", "md_remove")

\* aadgraph.GroupRemoveMember(ctx, client, timeout, id.GroupId, id.MemberId);
\* any error is returned.  The listing may go on showing the member.
GroupRemoveMember(p, here, next) ==
    /\ proc[p].pc = here
    /\ \E o \in RemoveOutcomes("members", proc[p].cid.MemberId) :
        /\ Charge(o)
        /\ CASE o = "ok" ->
                    /\ rels' = [rels EXCEPT !["members"] = @ \ {proc[p].cid.MemberId}]
                    /\ \E lag \in BOOLEAN :
                        proc' = [proc EXCEPT ![p] = [@ EXCEPT !.pc = next, !.stale = lag]]
                    /\ UNCHANGED locks
             [] o = "error" ->
                    /\ \E part \in Partial({proc[p].cid.MemberId}) :
                        rels' = [rels EXCEPT !["members"] = @ \ part]
                    /\ Return(p, "remove", proc[p].id)
             [] OTHER ->
                    /\ UNCHANGED rels
                    /\ Return(p, "remove", proc[p].id)
    /\ UNCHANGED memberFrame

\* Mutant: the Delete returning once the removal call has succeeded.
groupMemberResourceDeleteAadGraph_RemoveMember_NoWait(p) ==
    GroupRemoveMember(p, "md_remove", "done")

groupMemberResourceDeleteAadGraph_RemoveMember(p) ==
    GroupRemoveMember(p, "md_remove", "md_wait")

\* aadgraph.WaitForListRemove(ctx, id.MemberId, GroupAllMembers): polls the
\* listing until the member is not in it; a failed listing, or the member
\* still listed when the wait gives up, is an error.  Between two polls the
\* listing may catch up.
WaitForListRemove(p, here) ==
    /\ proc[p].pc = here
    /\ \E o \in CallOutcomes :
        /\ Charge(o)
        /\ CASE o = "ok" /\ proc[p].cid.MemberId \notin Listed ->
                    Return(p, "none", proc[p].id)
             [] o = "ok" /\ proc[p].cid.MemberId \in Listed ->
                    \/ /\ proc[p].stale
                       /\ proc' = [proc EXCEPT ![p] = [@ EXCEPT !.stale = FALSE]]
                       /\ UNCHANGED locks
                    \/ Return(p, "wait", proc[p].id)
             [] OTHER -> Return(p, "wait", proc[p].id)
    /\ UNCHANGED <<memberFrame, rels>>

groupMemberResourceDeleteAadGraph_Wait(p) == WaitForListRemove(p, "md_wait")

(***************************************************************************)
(* Reconciliation of an existing object: the owner functions of the        *)
(* application, and the group Update through the router.                   *)
(***************************************************************************)
Begin(h, d, c) ==
    /\ pc = "idle"
    /\ op' = h
    /\ desired' = d
    /\ chg' = c
    /\ pc' = StartPc(h, c)
    /\ calls' = <<>>
    /\ err' = "none"
    /\ passes' = 1
    /\ UNCHANGED <<backendVars, stateVars, deltaVars, passwordVars, cfg, faults>>

\* applicationSetOwnersTo(ctx, client, id, desiredOwners)
applicationSetOwnersTo ==
    /\ kind = "application"
    /\ \E d \in SUBSET IDs :
        Begin("applicationSetOwnersTo", [owners |-> d, members |-> {}],
              [owners |-> TRUE, members |-> FALSE])

\* msgraph.ApplicationSetOwners(ctx, client, application, desiredOwners)
ApplicationSetOwners ==
    /\ kind = "application"
    /\ \E d \in SUBSET IDs :
        Begin("ApplicationSetOwners", [owners |-> d, members |-> {}],
              [owners |-> TRUE, members |-> FALSE])

\* groupResourceUpdate: the router calls the Update of the selected backend.
groupResourceUpdate ==
    /\ kind = "group"
    /\ \E c \in [Rels -> BOOLEAN] :
       \E dOwners \in (IF c["owners"] THEN SUBSET IDs ELSE {st["owners"]}),
          dMembers \in (IF c["members"] THEN SUBSET MemberIDs ELSE {st["members"]}) :
        Begin(IF EnableMsGraphBeta THEN "groupResourceUpdateMsGraph"
              ELSE "groupResourceUpdateAadGraph",
              [owners |-> dOwners, members |-> dMembers], c)

\* The next apply after a failed pass runs the same handler again with the
\* same configuration.
Retry ==
    /\ pc = "done"
    /\ err # "none"
    /\ passes < MaxPasses
    /\ op \in {"applicationSetOwnersTo", "ApplicationSetOwners",
               "groupResourceUpdateMsGraph", "groupResourceUpdateAadGraph"}
    /\ pc' = StartPc(op, chg)
    /\ calls' = <<>>
    /\ err' = "none"
    /\ passes' = passes + 1
    /\ NoDelta
    /\ UNCHANGED <<backendVars, stateVars, configVars, passwordVars, op, faults>>

InitReconcile ==
    /\ EnableMsGraphBeta \in BOOLEAN
    /\ kind \in {"application", "group"}
    /\ exists \in BOOLEAN
    /\ visible = exists
    /\ rels \in [Rels -> SUBSET (IDs \cup MemberIDs)]
    /\ rels["owners"] \subseteq IDs
    /\ rels["members"] \subseteq MemberIDs
    /\ kind = "application" => rels["members"] = {}
    /\ ~exists => rels = NoRels
    /\ resId = ObjectId
    /\ st = rels
    /\ op = "none"
    /\ pc = "idle"
    /\ desired = NoRels
    /\ chg = [r \in Rels |-> FALSE]
    /\ cfg = NoCfg
    /\ deltaOf = "none"
    /\ existing = {}
    /\ toAdd = {}
    /\ toRemove = {}
    /\ pendAdd = {}
    /\ pendRemove = {}
    /\ waiting = "none"
    /\ calls = <<>>
    /\ err = "none"
    /\ faults = 0
    /\ passes = 0
    /\ PasswordIdle

NextReconcile ==
    \/ applicationSetOwnersTo
    \/ applicationSetOwnersTo_List
    \/ applicationSetOwnersTo_AddOwners
    \/ applicationSetOwnersTo_RemoveOwner
    \/ ApplicationSetOwners
    \/ ApplicationSetOwners_List
    \/ ApplicationSetOwners_RemoveOwners
    \/ ApplicationSetOwners_AddOwners
    \/ groupResourceUpdate
    \/ groupResourceUpdateMsGraph_CheckNameAvailability
    \/ groupResourceUpdateMsGraph_Update
    \/ groupResourceUpdateMsGraph_ListMembers
    \/ groupResourceUpdateMsGraph_RemoveMembers
    \/ groupResourceUpdateMsGraph_AddMembers
    \/ groupResourceUpdateMsGraph_ListOwners
    \/ groupResourceUpdateMsGraph_RemoveOwners
    \/ groupResourceUpdateMsGraph_AddOwners
    \/ groupResourceUpdateAadGraph_ListMembers
    \/ groupResourceUpdateAadGraph_RemoveMember
    \/ groupResourceUpdateAadGraph_WaitForListRemove
    \/ groupResourceUpdateAadGraph_AddMembers
    \/ groupResourceUpdateAadGraph_ListOwners
    \/ groupResourceUpdateAadGraph_RemoveOwner
    \/ groupResourceUpdateAadGraph_AddOwners
    \/ groupResourceReadMsGraph_Get
    \/ groupResourceReadMsGraph_ListOwners
    \/ groupResourceReadMsGraph_ListMembers
    \/ groupResourceReadAadGraph_Get
    \/ groupResourceReadAadGraph_AllMembers
    \/ groupResourceReadAadGraph_AllOwners
    \/ Retry

SpecReconcile == InitReconcile /\ [][NextReconcile]_vars

\* The same, with the retries the next applies make taken for granted.
LiveReconcile == SpecReconcile /\ WF_vars(NextReconcile)

(***************************************************************************)
(* Properties of the reconciliation.                                       *)
(***************************************************************************)
Finished == pc = "done" /\ err = "none"

\* Every relationship the pass had to reconcile equals its desired set.
Converged == \A r \in Rels : chg[r] => rels[r] = desired[r]

\* In the running pass every add call of rel precedes every remove call.
AddsBeforeRemoves(rel) ==
    \A i, j \in 1..Len(calls) :
        IsAdd(calls[i], rel) /\ IsRemove(calls[j], rel) => i < j

\* C1: the delta a reconciliation computes is toAdd = desired \ existing and
\* toRemove = existing \ desired; applying it to existing gives desired, and
\* the two sets are disjoint.
C1_DeltaIsSetDifference ==
    deltaOf # "none" =>
        /\ toAdd = desired[deltaOf] \ existing
        /\ toRemove = existing \ desired[deltaOf]
        /\ (existing \cup toAdd) \ toRemove = desired[deltaOf]
        /\ toAdd \cap toRemove = {}

C1_Witness ==
    /\ op \in {"applicationSetOwnersTo", "ApplicationSetOwners"}
    /\ deltaOf = "owners"
    /\ toAdd # {}
    /\ toRemove # {}

\* C3: in the owner reconciliation of an application, on either backend,
\* every add-owner call of a pass precedes every remove-owner call.
C3_ApplicationAddsBeforeRemoves ==
    op \in {"applicationSetOwnersTo", "ApplicationSetOwners"} =>
        AddsBeforeRemoves("owners")

\* C4: in the group Update, on either backend, every add call for owners
\* and for members precedes every remove call for the same relationship.
C4_GroupAddsBeforeRemoves ==
    op \in {"groupResourceUpdateMsGraph", "groupResourceUpdateAadGraph"} =>
        \A r \in Rels : AddsBeforeRemoves(r)

\* C5: when the add call of a pass fails, no remove call has been issued in
\* the pass and every element listed before the pass is still in the backend.
C5_FailedAddRemovesNothing ==
    pc = "done" /\ err = "add" =>
        /\ \A i \in 1..Len(calls) : ~IsRemove(calls[i], deltaOf)
        /\ existing \subseteq rels[deltaOf]

\* C6: after a pass that completed without error the backend's set of each
\* reconciled relationship equals the desired set.
C6_FinishedPassConverged == Finished /\ passes >= 1 => Converged

C6_Witness ==
    /\ Finished
    /\ op = "groupResourceUpdateAadGraph"
    /\ chg["owners"]
    /\ toAdd # {}
    /\ toRemove # {}
    /\ rels["owners"] = desired["owners"]

\* C7: a pass that failed part-way is repaired by running it again: a retry
\* that completes without error ends with the backend equal to desired, and
\* as long as the object exists retries do end that way.
C7_RetryConverges ==
    /\ [](Finished /\ passes > 1 => Converged)
    /\ (exists /\ passes >= 1) ~> (Finished /\ Converged)

C7_Witness ==
    /\ Finished
    /\ passes > 1
    /\ chg["owners"]
    /\ existing # desired["owners"]
    /\ rels["owners"] = desired["owners"]

\* C8: when the existing set equals the desired set the delta is empty: the
\* pass issues no add and no remove call and leaves the relationship as it is.
C8_NothingToDo ==
    deltaOf # "none" /\ existing = desired[deltaOf] =>
        /\ toAdd = {}
        /\ toRemove = {}
        /\ \A i \in 1..Len(calls) :
              ~IsAdd(calls[i], deltaOf) /\ ~IsRemove(calls[i], deltaOf)
        /\ rels[deltaOf] = existing

C8_Witness ==
    /\ Finished
    /\ deltaOf = "owners"
    /\ existing = desired["owners"]
    /\ existing # {}
    /\ op \in {"applicationSetOwnersTo", "ApplicationSetOwners",
               "groupResourceUpdateMsGraph"}

(***************************************************************************)
(* Two password handlers, Create or Delete each, running concurrently.     *)
(***************************************************************************)
\* The tracked object of the other handlers plays no part here.
MainIdle(k) ==
    /\ EnableMsGraphBeta = FALSE
    /\ kind = k
    /\ exists = FALSE
    /\ visible = FALSE
    /\ rels = NoRels
    /\ resId = ""
    /\ st = NoRels
    /\ op = "none"
    /\ pc = "off"
    /\ desired = NoRels
    /\ chg = [r \in Rels |-> FALSE]
    /\ cfg = NoCfg
    /\ deltaOf = "none"
    /\ existing = {}
    /\ toAdd = {}
    /\ toRemove = {}
    /\ pendAdd = {}
    /\ pendRemove = {}
    /\ waiting = "none"
    /\ calls = <<>>
    /\ err = "none"
    /\ passes = 0

\* The key a handler works on: each has its own.
KeyOf(p) == IF p = 1 THEN "k1" ELSE "k2"

\* A Create of key keyId on service principal sp, about to start.
CreateOf(sp, keyId) ==
    [Off EXCEPT !.op = "create", !.pc = "c_cred", !.objectId = sp, !.keyId = keyId]

\* A Delete, holding the resource ID id.
DeleteOf(id) == [Off EXCEPT !.op = "delete", !.pc = "d_parse", !.id = id]

\* The resource IDs a password of sp may be held under: the ID as the Create
\* sets it, and an ID that does not parse.
PasswordIds(sp, keyId) ==
    {CredentialIdString(CredentialIdFrom(sp, "password", keyId)), <<sp, "/", keyId>>}

PasswordBackend ==
    /\ spExists \in [Parents -> BOOLEAN]
    /\ creds \in [Parents -> SUBSET Keys]
    /\ \A s \in Parents : ~spExists[s] => creds[s] = {}
    /\ creds0 = creds
    /\ locks = [n \in LockNames |-> 0]
    /\ faults = 0

InitLock ==
    /\ MainIdle("password")
    /\ PasswordBackend
    /\ proc \in [Procs -> {CreateOf(sp, k) : sp \in Parents, k \in Keys}
                            \cup {DeleteOf(id) : id \in
                                     UNION {PasswordIds(sp, k) : sp \in Parents, k \in Keys}}]
    /\ \A p \in Procs :
        /\ proc[p].op = "create" => proc[p].keyId = KeyOf(p)
        /\ proc[p].op = "delete" => proc[p].id[Len(proc[p].id)] = KeyOf(p)
    /\ proc[1].op = "create" => proc[1].objectId = "sp1"
    /\ proc[1].op = "delete" => proc[1].id[1] = "sp1"

NextLock ==
    \/ \E p \in Procs : servicePrincipalPasswordResourceCreate_Credential(p)
    \/ \E p \in Procs : servicePrincipalPasswordResourceCreate_Lock(p)
    \/ \E p \in Procs : servicePrincipalPasswordResourceCreate_List(p)
    \/ \E p \in Procs : servicePrincipalPasswordResourceCreate_ResultAdd(p)
    \/ \E p \in Procs : servicePrincipalPasswordResourceCreate_Update(p)
    \/ \E p \in Procs : servicePrincipalPasswordResourceCreate_Wait(p)
    \/ \E p \in Procs : servicePrincipalPasswordResourceRead_Parse(p)
    \/ \E p \in Procs : servicePrincipalPasswordResourceRead_Get(p)
    \/ \E p \in Procs : servicePrincipalPasswordResourceRead_List(p)
    \/ \E p \in Procs : servicePrincipalPasswordResourceRead_Find(p)
    \/ \E p \in Procs : servicePrincipalPasswordResourceDelete_Parse(p)
    \/ \E p \in Procs : servicePrincipalPasswordResourceDelete_Lock(p)
    \/ \E p \in Procs : servicePrincipalPasswordResourceDelete_Get(p)
    \/ \E p \in Procs : servicePrincipalPasswordResourceDelete_List(p)
    \/ \E p \in Procs : servicePrincipalPasswordResourceDelete_Update(p)

SpecLock == InitLock /\ [][NextLock]_vars

\* The handler has listed the credentials and not yet written them back.
InReadModifyWrite(p) == proc[p].pc \in {"c_add", "c_update", "d_update"}

\* The handler completed and returned nil.
Succeeded(p) == proc[p].pc = "done" /\ proc[p].err = "none"

\* What the handler's success means for its key in the parent's list.
ChangeApplied(p) ==
    CASE proc[p].op = "create" -> proc[p].cid.KeyId \in creds[proc[p].cid.ObjectId]
      [] proc[p].op = "delete" -> proc[p].cid.KeyId \notin creds[proc[p].cid.ObjectId]
      [] OTHER -> TRUE

\* C2: two password Create/Delete handlers on the same service principal are
\* never both between their list and their update, and once both returned nil
\* the principal's credential list shows both changes and nothing else changed.
C2_CredentialUpdatesSerialized ==
    \A p, q \in Procs :
        p # q /\ proc[p].cid.ObjectId = proc[q].cid.ObjectId
              /\ proc[p].cid.ObjectId \in Parents =>
            /\ ~(InReadModifyWrite(p) /\ InReadModifyWrite(q))
            /\ Succeeded(p) /\ Succeeded(q) =>
                /\ ChangeApplied(p)
                /\ ChangeApplied(q)
                /\ creds[proc[p].cid.ObjectId] \ {KeyOf(p), KeyOf(q)}
                       = creds0[proc[p].cid.ObjectId] \ {KeyOf(p), KeyOf(q)}

C2_Witness ==
    /\ Succeeded(1)
    /\ Succeeded(2)
    /\ proc[1].op = "create"
    /\ proc[2].op = "delete"
    /\ proc[1].cid.ObjectId = proc[2].cid.ObjectId
    /\ creds0[proc[1].cid.ObjectId] = {"k0", "k2"}
    /\ creds[proc[1].cid.ObjectId] = {"k0", "k1"}

(***************************************************************************)
(* The Creates of applications and groups.                                 *)
(***************************************************************************)
\* Mutant: the validation made after the object has been patched.
Validate_AfterPatch(here, next) ==
    /\ pc = here
    /\ IF cfg.valid
       THEN /\ pc' = next
            /\ UNCHANGED <<err, calls>>
       ELSE /\ Fail("validation")
            /\ calls' = Append(calls, Call("Patch", "object", {}))
    /\ UNCHANGED <<backendVars, stateVars, configVars, passwordVars, deltaVars, op,
                   faults, passes>>

\* applicationValidateRolesScopes and the check of identifier_uris of a
\* native application: an invalid configuration is returned.
Validate(here, next) ==
    /\ pc = here
    /\ IF cfg.valid
       THEN /\ pc' = next
            /\ err' = err
       ELSE Fail("validation")
    /\ UNCHANGED <<backendVars, stateVars, configVars, passwordVars, deltaVars, op, calls,
                   faults, passes>>

\* client.Create with the relationships of the payload, then d.SetId: the
\* new object exists, and is not replicated yet.
CreateObject(here, payload, next) ==
    /\ pc = here
    /\ \E o \in {"ok"} \cup (IF faults < MaxFaults THEN {"error"} ELSE {}) :
        /\ calls' = Append(calls, Call("Create", "object", {}))
        /\ Charge(o)
        /\ IF o = "ok"
           THEN /\ exists' = TRUE
                /\ visible' = FALSE
                /\ rels' = payload
                /\ resId' = ObjectId
                /\ pc' = next
                /\ err' = err
           ELSE /\ Fail("create")
                /\ UNCHANGED <<exists, visible, rels, resId>>
    /\ UNCHANGED <<EnableMsGraphBeta, kind, st, configVars, passwordVars, deltaVars, op, passes>>

\* WaitForCreationReplication: polls Get until the object is readable, or
\* gives up.
WaitForCreationReplication(here, next) ==
    /\ pc = here
    /\ \E o \in {"ok"} \cup (IF faults < MaxFaults THEN {"error"} ELSE {}) :
        /\ calls' = Append(calls, Call("WaitForCreationReplication", "object", {}))
        /\ Charge(o)
        /\ IF o = "ok"
           THEN /\ visible' = TRUE
                /\ pc' = next
                /\ err' = err
           ELSE /\ Fail("wait")
                /\ UNCHANGED visible
    /\ UNCHANGED <<EnableMsGraphBeta, kind, exists, rels, stateVars, configVars, passwordVars,
                   deltaVars, op, passes>>

\* Mutant: a failed call rolls the Create back, deleting the object and
\* clearing the ID.
SetCall_RollsBack(here, wanted, name, rel, next) ==
    /\ pc = here
    /\ IF wanted
       THEN \E o \in CallOutcomes :
            /\ Charge(o)
            /\ IF o = "ok"
               THEN /\ calls' = Append(calls, Call(name, rel, {}))
                    /\ pc' = next
                    /\ err' = err
                    /\ UNCHANGED <<exists, visible, rels, resId>>
               ELSE /\ calls' = calls \o <<Call(name, rel, {}), Call("Delete", "object", {})>>
                    /\ Fail("set")
                    /\ exists' = FALSE
                    /\ visible' = FALSE
                    /\ rels' = NoRels
                    /\ resId' = ""
       ELSE /\ pc' = next
            /\ UNCHANGED <<calls, err, faults, exists, visible, rels, resId>>
    /\ UNCHANGED <<EnableMsGraphBeta, kind, st, configVars, passwordVars, deltaVars, op,
                   passes>>

\* One call on the object, made when the configuration asks for it.
SetCall(here, wanted, name, rel, next) ==
    /\ pc = here
    /\ IF wanted
       THEN \E o \in CallOutcomes :
            /\ calls' = Append(calls, Call(name, rel, {}))
            /\ Charge(o)
            /\ IF o = "ok"
               THEN /\ pc' = next
                    /\ err' = err
               ELSE Fail("set")
       ELSE /\ pc' = next
            /\ UNCHANGED <<calls, err, faults>>
    /\ UNCHANGED <<backendVars, stateVars, configVars, passwordVars, deltaVars, op, passes>>

\* applicationResourceCreate (AAD Graph)
arcAfterScopes == IF chg["owners"] THEN "aso_list" ELSE "ara_get"

applicationResourceCreate_FindByName == FindByName("arc_find", "arc_validate")

applicationResourceCreate_Validate == Validate("arc_validate", "arc_create")

applicationResourceCreate_Create == CreateObject("arc_create", NoRels, "arc_wait")

applicationResourceCreate_Wait == WaitForCreationReplication("arc_wait", "arc_patch")

applicationResourceCreate_Patch ==
    SetCall("arc_patch", cfg.native, "Patch", "object", "arc_roles")

applicationResourceCreate_AppRolesSet ==
    SetCall("arc_roles", cfg.app_role, "AppRolesSet", "app_role", "arc_scopes")

applicationResourceCreate_OAuth2PermissionsSet ==
    SetCall("arc_scopes", cfg.oauth2_permissions, "OAuth2PermissionsSet",
            "oauth2_permissions", arcAfterScopes)

\* applicationResourceCreateMsGraph: app roles and scopes go with the payload.
armAfterCreate == IF chg["owners"] THEN "mso_list" ELSE "arm_get"

applicationResourceCreateMsGraph_FindByName == FindByName("arm_find", "arm_validate")

applicationResourceCreateMsGraph_Validate == Validate("arm_validate", "arm_create")

applicationResourceCreateMsGraph_Create == CreateObject("arm_create", NoRels, armAfterCreate)

\* groupResourceCreateMsGraph: members and owners go with the payload.
groupResourceCreateMsGraph_CheckNameAvailability == FindByName("gcm_find", "gcm_create")

groupResourceCreateMsGraph_Create == CreateObject("gcm_create", desired, "gcm_wait")

groupResourceCreateMsGraph_Wait == WaitForCreationReplication("gcm_wait", "grm_get")

\* groupResourceCreateAadGraph: GroupAddMembers with the members, then
\* GroupAddOwners with the owners the group does not have.
gcaAfterMembers == IF chg["owners"] THEN "gca_owners_list" ELSE "gra_get"

gcaOwnersToAdd(existingOwners, desiredOwners) == Difference(desiredOwners, existingOwners)

gcaOwnersForRemoval(existingOwners, desiredOwners) == {}

groupResourceCreateAadGraph_FindByName == FindByName("gca_find", "gca_create")

groupResourceCreateAadGraph_Create == CreateObject("gca_create", NoRels, "gca_wait")

groupResourceCreateAadGraph_Wait == WaitForCreationReplication("gca_wait", "gca_members")

groupResourceCreateAadGraph_AddMembers ==
    AddEach("gca_members", "members", "AddMember", gcaAfterMembers)

groupResourceCreateAadGraph_AllOwners ==
    ListExisting("gca_owners_list", "owners",
                 gcaOwnersToAdd(rels["owners"], desired["owners"]),
                 gcaOwnersForRemoval(rels["owners"], desired["owners"]),
                 "gca_owners_add")

groupResourceCreateAadGraph_AddOwners ==
    AddEach("gca_owners_add", "owners", "AddOwner", "gra_get")

\* The application Reads.
applicationResourceRead_Get == ReadGet("ara_get", "ara_owners")

applicationResourceRead_AllOwners == ReadList("ara_owners", "owners", "done")

applicationResourceReadMsGraph_Get == ReadGet("arm_get", "arm_owners")

applicationResourceReadMsGraph_ListOwners == ReadList("arm_owners", "owners", "done")

\* A Create starts: d.GetOk of a relationship is true when it is not empty.
BeginCreate(h, first, d, c) ==
    /\ pc = "idle"
    /\ op' = h
    /\ desired' = d
    /\ chg' = [r \in Rels |-> d[r] # {}]
    /\ cfg' = c
    /\ pc' = first
    /\ calls' = <<>>
    /\ err' = "none"
    /\ passes' = 1
    /\ deltaOf' = "none"
    /\ pendAdd' = IF h = "groupResourceCreateAadGraph" THEN d["members"] ELSE {}
    /\ UNCHANGED <<backendVars, stateVars, passwordVars, existing, toAdd, toRemove,
                   pendRemove, waiting, faults>>

applicationResourceCreate ==
    /\ kind = "application"
    /\ \E d \in SUBSET IDs, c \in Cfgs :
        BeginCreate("applicationResourceCreate", "arc_find",
                    [owners |-> d, members |-> {}], c)

applicationResourceCreateMsGraph ==
    /\ kind = "application"
    /\ \E d \in SUBSET IDs, c \in Cfgs :
        BeginCreate("applicationResourceCreateMsGraph", "arm_find",
                    [owners |-> d, members |-> {}], c)

\* groupResourceCreate: the router calls the Create of the selected backend.
groupResourceCreate ==
    /\ kind = "group"
    /\ \E dOwners \in SUBSET IDs, dMembers \in SUBSET MemberIDs, dup \in BOOLEAN :
        BeginCreate(IF EnableMsGraphBeta THEN "groupResourceCreateMsGraph"
                    ELSE "groupResourceCreateAadGraph",
                    IF EnableMsGraphBeta THEN "gcm_find" ELSE "gca_find",
                    [owners |-> dOwners, members |-> dMembers],
                    [NoCfg EXCEPT !.prevent_duplicate_names = dup])

InitCreate ==
    /\ EnableMsGraphBeta \in BOOLEAN
    /\ kind \in {"application", "group"}
    /\ exists = FALSE
    /\ visible = FALSE
    /\ rels = NoRels
    /\ resId = ""
    /\ st = NoRels
    /\ op = "none"
    /\ pc = "idle"
    /\ desired = NoRels
    /\ chg = [r \in Rels |-> FALSE]
    /\ cfg = NoCfg
    /\ deltaOf = "none"
    /\ existing = {}
    /\ toAdd = {}
    /\ toRemove = {}
    /\ pendAdd = {}
    /\ pendRemove = {}
    /\ waiting = "none"
    /\ calls = <<>>
    /\ err = "none"
    /\ faults = 0
    /\ passes = 0
    /\ PasswordIdle

NextCreate ==
    \/ applicationResourceCreate
    \/ applicationResourceCreate_FindByName
    \/ applicationResourceCreate_Validate
    \/ applicationResourceCreate_Create
    \/ applicationResourceCreate_Wait
    \/ applicationResourceCreate_Patch
    \/ applicationResourceCreate_AppRolesSet
    \/ applicationResourceCreate_OAuth2PermissionsSet
    \/ applicationSetOwnersTo_List
    \/ applicationSetOwnersTo_AddOwners
    \/ applicationSetOwnersTo_RemoveOwner
    \/ applicationResourceRead_Get
    \/ applicationResourceRead_AllOwners
    \/ applicationResourceCreateMsGraph
    \/ applicationResourceCreateMsGraph_FindByName
    \/ applicationResourceCreateMsGraph_Validate
    \/ applicationResourceCreateMsGraph_Create
    \/ ApplicationSetOwners_List
    \/ ApplicationSetOwners_RemoveOwners
    \/ ApplicationSetOwners_AddOwners
    \/ applicationResourceReadMsGraph_Get
    \/ applicationResourceReadMsGraph_ListOwners
    \/ groupResourceCreate
    \/ groupResourceCreateMsGraph_CheckNameAvailability
    \/ groupResourceCreateMsGraph_Create
    \/ groupResourceCreateMsGraph_Wait
    \/ groupResourceReadMsGraph_Get
    \/ groupResourceReadMsGraph_ListOwners
    \/ groupResourceReadMsGraph_ListMembers
    \/ groupResourceCreateAadGraph_FindByName
    \/ groupResourceCreateAadGraph_Create
    \/ groupResourceCreateAadGraph_Wait
    \/ groupResourceCreateAadGraph_AddMembers
    \/ groupResourceCreateAadGraph_AllOwners
    \/ groupResourceCreateAadGraph_AddOwners
    \/ groupResourceReadAadGraph_Get
    \/ groupResourceReadAadGraph_AllMembers
    \/ groupResourceReadAadGraph_AllOwners

SpecCreate == InitCreate /\ [][NextCreate]_vars

CreateOps ==
    {"applicationResourceCreate", "applicationResourceCreateMsGraph",
     "groupResourceCreateMsGraph", "groupResourceCreateAadGraph"}

\* A call that applies a sub-resource: app roles, permission scopes, owners,
\* members.
IsSubResource(c) ==
    \/ c.call \in {"AppRolesSet", "OAuth2PermissionsSet"}
    \/ c.rel \in Rels

\* The call at position i of the pass has a call named name before it.
Preceded(i, name) == \E j \in 1..(i - 1) : calls[j].call = name

\* C9: a Create issues the uniqueness check before the create call, the
\* create call before the replication wait, the replication wait before every
\* sub-resource call, and every sub-resource call before the Get of the Read;
\* after a failed create call or a failed wait no sub-resource call is issued.
C9_CreateOrder ==
    op \in CreateOps =>
        \A i \in 1..Len(calls) :
            /\ calls[i].call = "Create" =>
                   \A j \in 1..(i - 1) : calls[j].call = "FindByName"
            /\ calls[i].call = "WaitForCreationReplication" => Preceded(i, "Create")
            /\ IsSubResource(calls[i]) =>
                   /\ Preceded(i, "Create")
                   /\ Preceded(i, "WaitForCreationReplication")
                   /\ ~Preceded(i, "Get")
            /\ err \in {"create", "wait"} => ~IsSubResource(calls[i])

(***************************************************************************)
(* The Reads, each run on its own: of an application, a group, a service   *)
(* principal, and of a service-principal password.                         *)
(***************************************************************************)
servicePrincipalResourceRead_Get == ReadGet("spr_get", "done")

BeginRead(h, first) ==
    /\ pc = "idle"
    /\ op' = h
    /\ pc' = first
    /\ calls' = <<>>
    /\ err' = "none"
    /\ passes' = 1
    /\ UNCHANGED <<backendVars, stateVars, configVars, deltaVars, passwordVars, faults>>

applicationResourceRead ==
    /\ kind = "application"
    /\ BeginRead("applicationResourceRead", "ara_get")

applicationResourceReadMsGraph ==
    /\ kind = "application"
    /\ BeginRead("applicationResourceReadMsGraph", "arm_get")

\* groupResourceRead: the router calls the Read of the selected backend.
groupResourceRead ==
    /\ kind = "group"
    /\ BeginRead(IF EnableMsGraphBeta THEN "groupResourceReadMsGraph"
                 ELSE "groupResourceReadAadGraph", groupResourceReadEntry)

servicePrincipalResourceRead ==
    /\ kind = "servicePrincipal"
    /\ BeginRead("servicePrincipalResourceRead", "spr_get")

\* A Read of a password, holding the resource ID id.
ReadOf(id) == [Off EXCEPT !.op = "read", !.pc = "r_parse", !.id = id]

InitRead ==
    \/ /\ EnableMsGraphBeta \in BOOLEAN
       /\ kind \in {"application", "group", "servicePrincipal"}
       /\ exists \in BOOLEAN
       /\ visible = exists
       /\ rels \in [Rels -> SUBSET (IDs \cup MemberIDs)]
       /\ rels["owners"] \subseteq IDs
       /\ rels["members"] \subseteq MemberIDs
       /\ kind # "group" => rels["members"] = {}
       /\ kind = "servicePrincipal" => rels = NoRels
       /\ ~exists => rels = NoRels
       /\ resId = ObjectId
       /\ st = NoRels
       /\ op = "none"
       /\ pc = "idle"
       /\ desired = NoRels
       /\ chg = [r \in Rels |-> FALSE]
       /\ cfg = NoCfg
       /\ deltaOf = "none"
       /\ existing = {}
       /\ toAdd = {}
       /\ toRemove = {}
       /\ pendAdd = {}
       /\ pendRemove = {}
       /\ waiting = "none"
       /\ calls = <<>>
       /\ err = "none"
       /\ faults = 0
       /\ passes = 0
       /\ PasswordIdle
    \/ /\ MainIdle("password")
       /\ PasswordBackend
       /\ \E sp \in Parents : \E id \in PasswordIds(sp, KeyOf(1)) :
            proc = [p \in Procs |-> IF p = 1 THEN ReadOf(id) ELSE Off]

NextRead ==
    \/ applicationResourceRead
    \/ applicationResourceRead_Get
    \/ applicationResourceRead_AllOwners
    \/ applicationResourceReadMsGraph
    \/ applicationResourceReadMsGraph_Get
    \/ applicationResourceReadMsGraph_ListOwners
    \/ groupResourceRead
    \/ groupResourceReadMsGraph_Get
    \/ groupResourceReadMsGraph_ListOwners
    \/ groupResourceReadMsGraph_ListMembers
    \/ groupResourceReadAadGraph_Get
    \/ groupResourceReadAadGraph_AllMembers
    \/ groupResourceReadAadGraph_AllOwners
    \/ servicePrincipalResourceRead
    \/ servicePrincipalResourceRead_Get
    \/ \E p \in Procs : servicePrincipalPasswordResourceRead_Parse(p)
    \/ \E p \in Procs : servicePrincipalPasswordResourceRead_Get(p)
    \/ \E p \in Procs : servicePrincipalPasswordResourceRead_List(p)
    \/ \E p \in Procs : servicePrincipalPasswordResourceRead_Find(p)

SpecRead == InitRead /\ [][NextRead]_vars

ReadOps ==
    {"applicationResourceRead", "applicationResourceReadMsGraph",
     "groupResourceReadMsGraph", "groupResourceReadAadGraph",
     "servicePrincipalResourceRead"}

\* The password of the parsed ID is missing: its parent, or its key.
PasswordMissing(p) ==
    \/ ~spExists[proc[p].cid.ObjectId]
    \/ proc[p].cid.KeyId \notin creds[proc[p].cid.ObjectId]

\* C10: a Read whose Get the backend answers with 404 clears the resource ID
\* and returns nil; a Read that meets another error returns it and leaves the
\* ID as it was; a Read that finds the object keeps the ID.  The password Read
\* does the same when the parent is not found or the key is not in its list.
C10_ReadNotFoundClearsId ==
    /\ op \in ReadOps /\ pc = "done" =>
        /\ \A i \in 1..Len(calls) :
            /\ calls[i].arg = {"notfound"} => resId = "" /\ err = "none"
            /\ calls[i].arg = {"error"} => resId = ObjectId /\ err # "none"
            /\ calls[i].arg = {"ok"} => resId = ObjectId
        /\ err # "none" => resId = ObjectId
        /\ Len(calls) = 1
    /\ \A p \in Procs :
        proc[p].op = "read" /\ proc[p].pc = "done" /\ proc[p].cid # NoCredentialId =>
            /\ faults = 0 /\ PasswordMissing(p) =>
                   proc[p].id = <<>> /\ proc[p].err = "none"
            /\ faults = 0 /\ ~PasswordMissing(p) =>
                   proc[p].id = CredentialIdString(proc[p].cid) /\ proc[p].err = "none"
            /\ proc[p].err # "none" => proc[p].id = CredentialIdString(proc[p].cid)

C10_Witness ==
    /\ op = "applicationResourceRead"
    /\ pc = "done"
    /\ calls = <<Call("Get", "object", {"notfound"})>>
    /\ resId = ""
    /\ err = "none"

(***************************************************************************)
(* The Deletes of an application, a group and a service principal.         *)
(***************************************************************************)
\* client.Delete: the handler returns its error, but for a 404 when it
\* tolerates one.
DeleteObject(here, tolerant) ==
    /\ pc = here
    /\ \E o \in CallOutcomes :
        /\ calls' = Append(calls, Call("Delete", "object", {o}))
        /\ Charge(o)
        /\ CASE o = "ok" -> /\ exists' = FALSE
                            /\ visible' = FALSE
                            /\ rels' = NoRels
                            /\ pc' = "done"
                            /\ err' = "none"
             [] o = "notfound" /\ tolerant -> /\ pc' = "done"
                                              /\ err' = "none"
                                              /\ UNCHANGED <<exists, visible, rels>>
             [] OTHER -> /\ Fail("delete")
                         /\ UNCHANGED <<exists, visible, rels>>
    /\ UNCHANGED <<EnableMsGraphBeta, kind, stateVars, configVars, passwordVars, deltaVars,
                   op, passes>>

\* applicationResourceDelete: an application available to other tenants has
\* the flag cleared by a Patch first.
applicationResourceDelete_Patch ==
    SetCall("ard_patch", cfg.available_to_other_tenants, "Patch", "object", "ard_delete")

applicationResourceDelete_Delete == DeleteObject("ard_delete", TRUE)

\* applicationResourceDeleteMsGraph: return nil.
applicationResourceDeleteMsGraph_Return ==
    /\ pc = "armd_return"
    /\ pc' = "done"
    /\ err' = "none"
    /\ UNCHANGED <<backendVars, stateVars, configVars, passwordVars, deltaVars, op, calls,
                   faults, passes>>

groupResourceDeleteMsGraph_Delete == DeleteObject("gdm_delete", FALSE)

groupResourceDeleteAadGraph_Delete == DeleteObject("gda_delete", TRUE)

servicePrincipalResourceDelete_Delete == DeleteObject("spd_delete", TRUE)

\* A Delete starts, with available_to_other_tenants as the state has it.
BeginDelete(h, first, flag) ==
    /\ pc = "idle"
    /\ op' = h
    /\ cfg' = [NoCfg EXCEPT !.available_to_other_tenants = flag]
    /\ pc' = first
    /\ calls' = <<>>
    /\ err' = "none"
    /\ passes' = 1
    /\ UNCHANGED <<backendVars, stateVars, desired, chg, deltaVars, passwordVars, faults>>

applicationResourceDelete ==
    /\ kind = "application"
    /\ \E flag \in BOOLEAN : BeginDelete("applicationResourceDelete", "ard_patch", flag)

applicationResourceDeleteMsGraph ==
    /\ kind = "application"
    /\ \E flag \in BOOLEAN :
        BeginDelete("applicationResourceDeleteMsGraph", "armd_return", flag)

\* groupResourceDelete: the router calls the Delete of the selected backend.
groupResourceDelete ==
    /\ kind = "group"
    /\ BeginDelete(IF EnableMsGraphBeta THEN "groupResourceDeleteMsGraph"
                   ELSE "groupResourceDeleteAadGraph",
                   IF EnableMsGraphBeta THEN "gdm_delete" ELSE "gda_delete", FALSE)

servicePrincipalResourceDelete ==
    /\ kind = "servicePrincipal"
    /\ BeginDelete("servicePrincipalResourceDelete", "spd_delete", FALSE)

\* A tracked object of one of the kinds, existing or already gone, and no
\* handler running.
InitTracked(kinds) ==
    /\ EnableMsGraphBeta \in BOOLEAN
    /\ kind \in kinds
    /\ exists \in BOOLEAN
    /\ visible = exists
    /\ rels \in [Rels -> SUBSET (IDs \cup MemberIDs)]
    /\ rels["owners"] \subseteq IDs
    /\ rels["members"] \subseteq MemberIDs
    /\ kind # "group" => rels["members"] = {}
    /\ kind = "servicePrincipal" => rels = NoRels
    /\ ~exists => rels = NoRels
    /\ resId = ObjectId
    /\ st = rels
    /\ op = "none"
    /\ pc = "idle"
    /\ desired = NoRels
    /\ chg = [r \in Rels |-> FALSE]
    /\ cfg = NoCfg
    /\ deltaOf = "none"
    /\ existing = {}
    /\ toAdd = {}
    /\ toRemove = {}
    /\ pendAdd = {}
    /\ pendRemove = {}
    /\ waiting = "none"
    /\ calls = <<>>
    /\ err = "none"
    /\ faults = 0
    /\ passes = 0
    /\ PasswordIdle

InitDelete == InitTracked({"application", "group", "servicePrincipal"})

NextDelete ==
    \/ applicationResourceDelete
    \/ applicationResourceDelete_Patch
    \/ applicationResourceDelete_Delete
    \/ applicationResourceDeleteMsGraph
    \/ applicationResourceDeleteMsGraph_Return
    \/ groupResourceDelete
    \/ groupResourceDeleteMsGraph_Delete
    \/ groupResourceDeleteAadGraph_Delete
    \/ servicePrincipalResourceDelete
    \/ servicePrincipalResourceDelete_Delete

SpecDelete == InitDelete /\ [][NextDelete]_vars

DeleteOps ==
    {"applicationResourceDelete", "applicationResourceDeleteMsGraph",
     "groupResourceDeleteMsGraph", "groupResourceDeleteAadGraph",
     "servicePrincipalResourceDelete"}

\* The pass has issued a call named name.
Issued(name) == \E i \in 1..Len(calls) : calls[i].call = name

\* C11: a Delete whose delete call the backend answers with 404 returns nil,
\* for the application, the group and the service principal on both backends.
C11_DeleteNotFoundIsSuccess ==
    op \in DeleteOps /\ pc = "done" =>
        \A i \in 1..Len(calls) :
            calls[i].call = "Delete" /\ calls[i].arg = {"notfound"} => err = "none"

\* C12: the Delete of an application that is available to other tenants
\* issues the delete call, and only after the Patch clearing the flag has
\* succeeded; when the Patch fails it returns the error and issues no delete
\* call.
C12_DeleteAfterFlagCleared ==
    op \in {"applicationResourceDelete", "applicationResourceDeleteMsGraph"}
        /\ cfg.available_to_other_tenants =>
        /\ \A i \in 1..Len(calls) : calls[i].call = "Delete" => Preceded(i, "Patch")
        /\ pc = "done" /\ err = "set" => ~Issued("Delete")
        /\ pc = "done" /\ err = "none" => Issued("Delete")

(***************************************************************************)
(* The Updates of applications, groups and service principals.  The        *)
(* payload of the update call is the set of configuration fields whose     *)
(* value it carries; the ID it is addressed to is not one of them.         *)
(***************************************************************************)
MaxChanged == 2

ApplicationFields ==
    {"name", "display_name", "homepage", "logout_url", "identifier_uris", "reply_urls",
     "available_to_other_tenants", "oauth2_allow_implicit_flow", "public_client",
     "required_resource_access", "optional_claims", "group_membership_claims", "type",
     "app_role", "oauth2_permissions"}

GroupFields == {"display_name", "description"}

ServicePrincipalFields == {"app_role_assignment_required", "tags"}

\* graphrbac.ApplicationUpdateParameters as applicationResourceUpdate fills it:
\* a field under its own d.HasChange, and PublicClient and IdentifierUris
\* under d.HasChange("type") as well.
applicationResourceUpdate_properties(changed) ==
    (changed \cap {"name", "homepage", "logout_url", "identifier_uris", "reply_urls",
                   "available_to_other_tenants", "oauth2_allow_implicit_flow",
                   "public_client", "required_resource_access", "optional_claims",
                   "group_membership_claims"})
        \cup (IF "type" \in changed THEN {"public_client", "identifier_uris"} ELSE {})

\* models.Application as applicationResourceUpdateMsGraph fills it: six
\* fields in the literal, DisplayName from display_name or else name when
\* one changed, four fields under their own d.HasChange, and
\* IsFallbackPublicClient and IdentifierUris under d.HasChange("type").
applicationResourceUpdateMsGraph_properties(changed) ==
    {"identifier_uris", "optional_claims", "required_resource_access",
     "available_to_other_tenants", "oauth2_allow_implicit_flow", "logout_url"}
        \cup (IF "display_name" \in changed THEN {"display_name"}
              ELSE IF "name" \in changed THEN {"name"} ELSE {})
        \cup (changed \cap {"group_membership_claims", "homepage", "public_client",
                            "reply_urls"})
        \cup (IF "type" \in changed THEN {"public_client", "identifier_uris"} ELSE {})

\* Mutant: a 404 of the update call taken as "gone", as a Read takes it.
UpdateCall_NotFoundIsGone(here, name, payload, next) ==
    /\ pc = here
    /\ \E o \in CallOutcomes :
        /\ calls' = Append(calls, Call(name, "object", payload))
        /\ Charge(o)
        /\ CASE o = "ok" -> /\ pc' = next
                            /\ UNCHANGED <<err, resId>>
             [] o = "notfound" -> /\ pc' = "done"
                                  /\ resId' = ""
                                  /\ err' = err
             [] OTHER -> /\ Fail("update")
                         /\ UNCHANGED resId
    /\ UNCHANGED <<backendVars, st, configVars, passwordVars, deltaVars, op, passes>>

\* client.Patch / client.Update with the payload: any error is returned.
UpdateCall(here, name, payload, next) ==
    /\ pc = here
    /\ \E o \in CallOutcomes :
        /\ calls' = Append(calls, Call(name, "object", payload))
        /\ Charge(o)
        /\ IF o = "ok"
           THEN /\ pc' = next
                /\ err' = err
           ELSE Fail("update")
    /\ UNCHANGED <<backendVars, stateVars, configVars, passwordVars, deltaVars, op, passes>>

\* applicationResourceUpdate (AAD Graph)
applicationResourceUpdate_FindByName ==
    IF "name" \in cfg.changed
    THEN FindByName("aru_find", "aru_validate")
    ELSE Skip("aru_find", "aru_validate")

applicationResourceUpdate_Validate == Validate("aru_validate", "aru_patch")

applicationResourceUpdate_Patch ==
    UpdateCall("aru_patch", "Patch", applicationResourceUpdate_properties(cfg.changed),
               "aru_roles")

applicationResourceUpdate_AppRolesSet ==
    SetCall("aru_roles", "app_role" \in cfg.changed /\ cfg.app_role, "AppRolesSet",
            "app_role", "aru_scopes")

applicationResourceUpdate_OAuth2PermissionsSet ==
    SetCall("aru_scopes", "oauth2_permissions" \in cfg.changed /\ cfg.oauth2_permissions,
            "OAuth2PermissionsSet", "oauth2_permissions", arcAfterScopes)

\* applicationResourceUpdateMsGraph: it ends without a Read.
armuAfterScopes == IF chg["owners"] THEN "mso_list" ELSE "done"

applicationResourceUpdateMsGraph_FindByName ==
    IF cfg.changed \cap {"display_name", "name"} # {}
    THEN FindByName("armu_find", "armu_validate")
    ELSE Skip("armu_find", "armu_validate")

applicationResourceUpdateMsGraph_Validate == Validate("armu_validate", "armu_update")

applicationResourceUpdateMsGraph_Update ==
    UpdateCall("armu_update", "Update",
               applicationResourceUpdateMsGraph_properties(cfg.changed), "armu_roles")

applicationResourceUpdateMsGraph_SetAppRoles ==
    SetCall("armu_roles", "app_role" \in cfg.changed, "ApplicationSetAppRoles",
            "app_role", "armu_scopes")

applicationResourceUpdateMsGraph_SetOAuth2PermissionScopes ==
    SetCall("armu_scopes", "oauth2_permissions" \in cfg.changed /\ cfg.oauth2_permissions,
            "ApplicationSetOAuth2PermissionScopes", "oauth2_permissions", armuAfterScopes)

\* servicePrincipalResourceUpdate
servicePrincipalResourceUpdate_Update ==
    UpdateCall("spu_update", "Update", cfg.changed \cap ServicePrincipalFields, "spu_wait")

servicePrincipalResourceUpdate_Wait == WaitForCreationReplication("spu_wait", "spr_get")

\* The fields d.HasChange reports: at most MaxChanged of them.
ChangedSets(fields) == {c \in SUBSET fields : Cardinality(c) <= MaxChanged}

\* An Update starts from the plan: the changed fields, the flags of the
\* configuration, and the owners and members where they changed.
BeginUpdate(h, first, d, c, f) ==
    /\ pc = "idle"
    /\ op' = h
    /\ desired' = d
    /\ chg' = c
    /\ cfg' = f
    /\ pc' = first
    /\ calls' = <<>>
    /\ err' = "none"
    /\ passes' = 1
    /\ UNCHANGED <<backendVars, stateVars, deltaVars, passwordVars, faults>>

\* The configurations of an Update: a flag is drawn only where the handler
\* reads it, that is where its field changed.
UpdateCfgs(fields) ==
    {f \in {[g EXCEPT !.changed = c] : g \in Cfgs, c \in ChangedSets(fields)} :
        /\ ~f.native /\ ~f.available_to_other_tenants
        /\ f.prevent_duplicate_names => f.changed \cap {"name", "display_name"} # {}
        /\ f.app_role => "app_role" \in f.changed
        /\ f.oauth2_permissions => "oauth2_permissions" \in f.changed}

\* The owners an Update is drawn over.
UpdateIDs == {"A", "B"}

applicationResourceUpdate ==
    /\ pc = "idle"
    /\ kind = "application"
    /\ \E f \in UpdateCfgs(ApplicationFields), c \in BOOLEAN :
       \E d \in (IF c THEN SUBSET UpdateIDs ELSE {st["owners"]}) :
        BeginUpdate("applicationResourceUpdate", "aru_find",
                    [owners |-> d, members |-> {}], [owners |-> c, members |-> FALSE], f)

applicationResourceUpdateMsGraph ==
    /\ pc = "idle"
    /\ kind = "application"
    /\ \E f \in UpdateCfgs(ApplicationFields), c \in BOOLEAN :
       \E d \in (IF c THEN SUBSET UpdateIDs ELSE {st["owners"]}) :
        BeginUpdate("applicationResourceUpdateMsGraph", "armu_find",
                    [owners |-> d, members |-> {}], [owners |-> c, members |-> FALSE], f)

\* groupResourceUpdate with the changes of display_name and description too.
groupResourceUpdate_Changed ==
    /\ pc = "idle"
    /\ kind = "group"
    /\ \E f \in UpdateCfgs(GroupFields), c \in [Rels -> BOOLEAN] :
       \E dOwners \in (IF c["owners"] THEN SUBSET UpdateIDs ELSE {st["owners"]}),
          dMembers \in (IF c["members"] THEN SUBSET MemberIDs ELSE {st["members"]}) :
        LET h == IF EnableMsGraphBeta THEN "groupResourceUpdateMsGraph"
                 ELSE "groupResourceUpdateAadGraph"
        IN BeginUpdate(h, StartPc(h, c), [owners |-> dOwners, members |-> dMembers], c, f)

servicePrincipalResourceUpdate ==
    /\ pc = "idle"
    /\ kind = "servicePrincipal"
    /\ \E f \in UpdateCfgs(ServicePrincipalFields) :
        BeginUpdate("servicePrincipalResourceUpdate", "spu_update", NoRels,
                    [r \in Rels |-> FALSE], f)

InitUpdate ==
    /\ InitTracked({"application", "group", "servicePrincipal"})
    /\ rels["owners"] \subseteq UpdateIDs

NextUpdate ==
    \/ applicationResourceUpdate
    \/ applicationResourceUpdate_FindByName
    \/ applicationResourceUpdate_Validate
    \/ applicationResourceUpdate_Patch
    \/ applicationResourceUpdate_AppRolesSet
    \/ applicationResourceUpdate_OAuth2PermissionsSet
    \/ applicationSetOwnersTo_List
    \/ applicationSetOwnersTo_AddOwners
    \/ applicationSetOwnersTo_RemoveOwner
    \/ applicationResourceRead_Get
    \/ applicationResourceRead_AllOwners
    \/ applicationResourceUpdateMsGraph
    \/ applicationResourceUpdateMsGraph_FindByName
    \/ applicationResourceUpdateMsGraph_Validate
    \/ applicationResourceUpdateMsGraph_Update
    \/ applicationResourceUpdateMsGraph_SetAppRoles
    \/ applicationResourceUpdateMsGraph_SetOAuth2PermissionScopes
    \/ ApplicationSetOwners_List
    \/ ApplicationSetOwners_RemoveOwners
    \/ ApplicationSetOwners_AddOwners
    \/ groupResourceUpdate_Changed
    \/ groupResourceUpdateMsGraph_CheckNameAvailability
    \/ groupResourceUpdateMsGraph_Update
    \/ groupResourceUpdateMsGraph_ListMembers
    \/ groupResourceUpdateMsGraph_RemoveMembers
    \/ groupResourceUpdateMsGraph_AddMembers
    \/ groupResourceUpdateMsGraph_ListOwners
    \/ groupResourceUpdateMsGraph_RemoveOwners
    \/ groupResourceUpdateMsGraph_AddOwners
    \/ groupResourceUpdateAadGraph_ListMembers
    \/ groupResourceUpdateAadGraph_RemoveMember
    \/ groupResourceUpdateAadGraph_WaitForListRemove
    \/ groupResourceUpdateAadGraph_AddMembers
    \/ groupResourceUpdateAadGraph_ListOwners
    \/ groupResourceUpdateAadGraph_RemoveOwner
    \/ groupResourceUpdateAadGraph_AddOwners
    \/ groupResourceReadMsGraph_Get
    \/ groupResourceReadMsGraph_ListOwners
    \/ groupResourceReadMsGraph_ListMembers
    \/ groupResourceReadAadGraph_Get
    \/ groupResourceReadAadGraph_AllMembers
    \/ groupResourceReadAadGraph_AllOwners
    \/ servicePrincipalResourceUpdate
    \/ servicePrincipalResourceUpdate_Update
    \/ servicePrincipalResourceUpdate_Wait
    \/ servicePrincipalResourceRead_Get

SpecUpdate == InitUpdate /\ [][NextUpdate]_vars

UpdateOps ==
    {"applicationResourceUpdate", "applicationResourceUpdateMsGraph",
     "groupResourceUpdateMsGraph", "groupResourceUpdateAadGraph",
     "servicePrincipalResourceUpdate"}

\* C14: the payload of the update call of an Update holds only fields that
\* changed, for the application on both backends and for the group.
C14_UpdateSendsOnlyChanged ==
    op \in UpdateOps =>
        \A i \in 1..Len(calls) :
            calls[i].call \in {"Patch", "Update"} => calls[i].arg \subseteq cfg.changed

\* The add calls on rel carry exactly the set s, each element once.  (The
\* AAD Graph helpers are given the whole set and add it element by element.)
AddedOnce(rel, s) ==
    /\ \E i \in 1..Len(calls) : IsAdd(calls[i], rel)
    /\ \A i \in 1..Len(calls) : IsAdd(calls[i], rel) => calls[i].arg \subseteq s
    /\ \A x \in s :
        Cardinality({i \in 1..Len(calls) : IsAdd(calls[i], rel) /\ x \in calls[i].arg}) = 1

\* C15: a group Create with desired owners {A, B} that returns nil has issued
\* the add of exactly {A, B} to the owners and no remove call, on both
\* backends.
C15_CreateGroupAddsOwnersOnce ==
    /\ op \in {"groupResourceCreateMsGraph", "groupResourceCreateAadGraph"}
    /\ desired["owners"] = {"A", "B"}
    /\ pc = "done"
    /\ err = "none"
    => /\ AddedOnce("owners", {"A", "B"})
       /\ \A i \in 1..Len(calls) : ~IsRemove(calls[i], "owners")

\* C16: the ID of a password and the ID of a group member, formatted and
\* parsed, give back the parent, the type and the key they were made from,
\* for every parent and key; and the Read that ends a password Create parses
\* the ID the Create stored back to the Create's service principal and key.
C16_IdRoundTrip ==
    /\ \A sp \in Parents, k \in Keys :
        ParsePasswordId(CredentialIdString(CredentialIdFrom(sp, "password", k)))
            = CredentialIdFrom(sp, "password", k)
    /\ \A g \in IDs, x \in MemberIDs :
        ParseGroupMemberId(GroupMemberIdString(GroupMemberIdFrom(g, x)))
            = GroupMemberIdFrom(g, x)
    /\ \A p \in Procs :
        proc[p].op = "create" =>
            /\ proc[p].err # "parse"
            /\ proc[p].pc \in {"r_get", "r_list", "r_find"} =>
                proc[p].cid = CredentialIdFrom(proc[p].objectId, "password", proc[p].keyId)

\* A Create has stored its ID and its Read has parsed it.
C16_Witness ==
    \E p \in Procs :
        /\ proc[p].op = "create"
        /\ proc[p].pc = "r_get"
        /\ proc[p].id = CredentialIdString(proc[p].cid)

(***************************************************************************)
(* The routers of the group resource and of the group data sources, with   *)
(* the handlers of both backends.                                          *)
(***************************************************************************)
\* The lookup of a data source: the group by object ID or by display name;
\* every failure is returned, and the ID found is set.
Lookup(here, id, next) ==
    /\ pc = here
    /\ \E o \in CallOutcomes :
        /\ calls' = Append(calls, Call("Get", "object", {}))
        /\ Charge(o)
        /\ IF o = "ok"
           THEN /\ resId' = id
                /\ pc' = next
                /\ err' = err
           ELSE /\ Fail("lookup")
                /\ UNCHANGED resId
    /\ UNCHANGED <<backendVars, st, configVars, passwordVars, deltaVars, op, passes>>

groupDataSourceReadMsGraph_Lookup == Lookup("gsm_lookup", ObjectId, "gsm_members")

groupDataSourceReadMsGraph_ListMembers == ReadList("gsm_members", "members", "gsm_owners")

groupDataSourceReadMsGraph_ListOwners == ReadList("gsm_owners", "owners", "done")

groupDataSourceReadAadGraph_Lookup == Lookup("gsa_lookup", ObjectId, "gsa_members")

groupDataSourceReadAadGraph_AllMembers == ReadList("gsa_members", "members", "gsa_owners")

groupDataSourceReadAadGraph_AllOwners == ReadList("gsa_owners", "owners", "done")

\* The groups data source sets "groups#" and the hash of the names as ID.
groupsDataSourceReadMsGraph_Lookup == Lookup("gpm_lookup", "groups#", "done")

groupsDataSourceReadAadGraph_Lookup == Lookup("gpa_lookup", "groups#", "done")

\* Mutant: the router of the data source with the backends exchanged.
groupDataSourceRead_Exchanged ==
    /\ kind = "group"
    /\ BeginRead(IF EnableMsGraphBeta THEN "groupDataSourceReadAadGraph"
                 ELSE "groupDataSourceReadMsGraph",
                 IF EnableMsGraphBeta THEN "gsa_lookup" ELSE "gsm_lookup")

groupDataSourceRead ==
    /\ kind = "group"
    /\ BeginRead(IF EnableMsGraphBeta THEN "groupDataSourceReadMsGraph"
                 ELSE "groupDataSourceReadAadGraph",
                 IF EnableMsGraphBeta THEN "gsm_lookup" ELSE "gsa_lookup")

groupsDataSourceRead ==
    /\ kind = "group"
    /\ BeginRead(IF EnableMsGraphBeta THEN "groupsDataSourceReadMsGraph"
                 ELSE "groupsDataSourceReadAadGraph",
                 IF EnableMsGraphBeta THEN "gpm_lookup" ELSE "gpa_lookup")

\* A group not created yet, or a tracked one.
InitRouter ==
    /\ kind = "group"
    /\ InitCreate \/ InitTracked({"group"})

NextRouter ==
    \/ resId = "" /\ groupResourceCreate
    \/ groupResourceCreateMsGraph_CheckNameAvailability
    \/ groupResourceCreateMsGraph_Create
    \/ groupResourceCreateMsGraph_Wait
    \/ groupResourceCreateAadGraph_FindByName
    \/ groupResourceCreateAadGraph_Create
    \/ groupResourceCreateAadGraph_Wait
    \/ groupResourceCreateAadGraph_AddMembers
    \/ groupResourceCreateAadGraph_AllOwners
    \/ groupResourceCreateAadGraph_AddOwners
    \/ resId # "" /\ groupResourceRead
    \/ groupResourceReadMsGraph_Get
    \/ groupResourceReadMsGraph_ListOwners
    \/ groupResourceReadMsGraph_ListMembers
    \/ groupResourceReadAadGraph_Get
    \/ groupResourceReadAadGraph_AllMembers
    \/ groupResourceReadAadGraph_AllOwners
    \/ resId # "" /\ groupResourceUpdate_Changed
    \/ groupResourceUpdateMsGraph_CheckNameAvailability
    \/ groupResourceUpdateMsGraph_Update
    \/ groupResourceUpdateMsGraph_ListMembers
    \/ groupResourceUpdateMsGraph_RemoveMembers
    \/ groupResourceUpdateMsGraph_AddMembers
    \/ groupResourceUpdateMsGraph_ListOwners
    \/ groupResourceUpdateMsGraph_RemoveOwners
    \/ groupResourceUpdateMsGraph_AddOwners
    \/ groupResourceUpdateAadGraph_ListMembers
    \/ groupResourceUpdateAadGraph_RemoveMember
    \/ groupResourceUpdateAadGraph_WaitForListRemove
    \/ groupResourceUpdateAadGraph_AddMembers
    \/ groupResourceUpdateAadGraph_ListOwners
    \/ groupResourceUpdateAadGraph_RemoveOwner
    \/ groupResourceUpdateAadGraph_AddOwners
    \/ resId # "" /\ groupResourceDelete
    \/ groupResourceDeleteMsGraph_Delete
    \/ groupResourceDeleteAadGraph_Delete
    \/ groupDataSourceRead
    \/ groupDataSourceReadMsGraph_Lookup
    \/ groupDataSourceReadMsGraph_ListMembers
    \/ groupDataSourceReadMsGraph_ListOwners
    \/ groupDataSourceReadAadGraph_Lookup
    \/ groupDataSourceReadAadGraph_AllMembers
    \/ groupDataSourceReadAadGraph_AllOwners
    \/ groupsDataSourceRead
    \/ groupsDataSourceReadMsGraph_Lookup
    \/ groupsDataSourceReadAadGraph_Lookup

SpecRouter == InitRouter /\ [][NextRouter]_vars

MsGraphOps ==
    {"groupResourceCreateMsGraph", "groupResourceReadMsGraph", "groupResourceUpdateMsGraph",
     "groupResourceDeleteMsGraph", "groupDataSourceReadMsGraph",
     "groupsDataSourceReadMsGraph"}

AadGraphOps ==
    {"groupResourceCreateAadGraph", "groupResourceReadAadGraph",
     "groupResourceUpdateAadGraph", "groupResourceDeleteAadGraph",
     "groupDataSourceReadAadGraph", "groupsDataSourceReadAadGraph"}

\* The positions inside the handlers of each backend.
MsGraphPcs ==
    {"gcm_find", "gcm_create", "gcm_wait", "grm_get", "grm_members", "grm_owners",
     "gum_find", "gum_update", "gum_members_list", "gum_members_remove", "gum_members_add",
     "gum_owners_list", "gum_owners_remove", "gum_owners_add", "gdm_delete",
     "gsm_lookup", "gsm_members", "gsm_owners", "gpm_lookup"}

AadGraphPcs ==
    {"gca_find", "gca_create", "gca_wait", "gca_members", "gca_owners_list",
     "gca_owners_add", "gra_get", "gra_members", "gra_owners", "gua_members_list",
     "gua_members_remove", "gua_members_wait", "gua_members_add", "gua_owners_list",
     "gua_owners_remove", "gua_owners_add", "gda_delete", "gsa_lookup", "gsa_members",
     "gsa_owners", "gpa_lookup"}

\* The step of a router: from idle into a handler.
RouterStep == pc = "idle" /\ pc' # "idle"

\* C17: a router enters the MS Graph handler when EnableMsGraphBeta is set
\* and the AAD Graph handler otherwise, for the four operations of the group
\* resource and the Reads of the two data sources; the handler entered stays
\* in its backend; and the router's step issues no call and leaves the
\* backend and the resource's state as they are.
C17_RouterSelectsByFlag ==
    /\ [](op # "none" =>
            /\ op \in MsGraphOps \cup AadGraphOps
            /\ op \in MsGraphOps <=> EnableMsGraphBeta
            /\ pc \in MsGraphPcs => EnableMsGraphBeta
            /\ pc \in AadGraphPcs => ~EnableMsGraphBeta)
    /\ [][RouterStep =>
            /\ pc' \in (IF EnableMsGraphBeta THEN MsGraphPcs ELSE AadGraphPcs)
            /\ calls' = <<>>
            /\ UNCHANGED <<backendVars, stateVars>>]_vars

\* The router of the data source entered the MS Graph Read, which returned
\* nil.
C17_Witness ==
    /\ EnableMsGraphBeta
    /\ op = "groupDataSourceReadMsGraph"
    /\ pc = "done"
    /\ err = "none"

(***************************************************************************)
(* The Creates and the Updates together: a Create of an object that is not *)
(* tracked yet, an Update of a tracked one.                                *)
(***************************************************************************)
InitValidate == InitCreate \/ InitUpdate

NextValidate ==
    \/ (IF pc = "idle" THEN resId = "" ELSE op \in CreateOps) /\ NextCreate
    \/ (IF pc = "idle" THEN resId # "" ELSE op \in UpdateOps) /\ NextUpdate

SpecValidate == InitValidate /\ [][NextValidate]_vars

\* The handler returned the error of a duplicate name or of an invalid
\* app_role / oauth2_permissions configuration.
ValidationFailed == pc = "done" /\ err \in {"duplicate", "validation"}

\* C18: a Create or Update that returns a duplicate-name or validation error
\* has issued no call but the look-up of the name, the step that returns it
\* leaves the backend as it is, and nothing has been created, set as ID or
\* changed in the relationships.
C18_ValidationBeforeBackendCalls ==
    /\ [](ValidationFailed =>
            /\ \A i \in 1..Len(calls) : calls[i].call = "FindByName"
            /\ rels = st
            /\ op \in CreateOps => ~exists /\ resId = "")
    /\ [][ValidationFailed' => UNCHANGED backendVars]_vars

\* An Update refused for a duplicate name, after the look-up.
C18_Witness ==
    /\ ValidationFailed
    /\ op = "applicationResourceUpdate"
    /\ err = "duplicate"
    /\ Len(calls) = 1

\* C19: a Create that returns the error of a step after its create call
\* (the replication wait, app roles, permission scopes, owners, members or
\* the Read) has issued no delete call, leaves the object in the backend, and
\* keeps the new object's ID as the resource ID.
C19_NoRollbackAfterCreate ==
    op \in CreateOps /\ Issued("Create") /\ pc = "done" /\ err \notin {"none", "create"} =>
        /\ exists
        /\ resId = ObjectId
        /\ ~Issued("Delete")

\* The object was created and a later step failed: the replication wait, or
\* the app roles, or the owners.
C19_Witness ==
    /\ op = "applicationResourceCreate"
    /\ exists
    /\ pc = "done"
    /\ err = "set"
    /\ resId = ObjectId

\* The update call of an Update: Patch on AAD Graph, Update otherwise.
IsUpdateCall(c) == c.call \in {"Patch", "Update"} /\ c.rel = "object"

\* C20: when the object of an Update is absent and its update call is
\* answered with 404 (no other fault occurred), the Update returns the error
\* of the update call, keeps the resource ID, and the update call is the
\* last call it issued.
C20_UpdateNotFoundIsError ==
    /\ op \in UpdateOps
    /\ ~exists
    /\ faults = 0
    /\ \E i \in 1..Len(calls) : IsUpdateCall(calls[i])
    => /\ pc = "done"
       /\ err = "update"
       /\ resId = ObjectId
       /\ IsUpdateCall(calls[Len(calls)])

\* The Update of an application that is gone, with owners to reconcile.
C20_Witness ==
    /\ op = "applicationResourceUpdate"
    /\ ~exists
    /\ faults = 0
    /\ chg["owners"]
    /\ "app_role" \in cfg.changed
    /\ pc = "done"
    /\ err = "update"
(***************************************************************************)
(* Two group-member handlers, Create or Delete each, running concurrently  *)
(* on the one group; and the handlers of both locked resources together.   *)
(***************************************************************************)
\* A Create of member memberId in the group, about to start.
MemberCreateOf(memberId) ==
    [Off EXCEPT !.op = "member_create", !.pc = "mc_id", !.objectId = ObjectId,
                !.keyId = memberId]

\* A Delete, holding the resource ID id.
MemberDeleteOf(id) == [Off EXCEPT !.op = "member_delete", !.pc = "md_parse", !.id = id]

\* The resource IDs a member may be held under: the ID as the Create sets
\* it, and an ID that does not parse.
MemberIds(memberId) ==
    {GroupMemberIdString(GroupMemberIdFrom(ObjectId, memberId)), <<ObjectId, "/", memberId>>}

InitMember ==
    /\ EnableMsGraphBeta = FALSE
    /\ kind = "group"
    /\ exists \in BOOLEAN
    /\ visible = exists
    /\ rels \in [Rels -> SUBSET MemberIDs]
    /\ rels["owners"] = {}
    /\ ~exists => rels = NoRels
    /\ resId = ""
    /\ st = NoRels
    /\ op = "none"
    /\ pc = "off"
    /\ desired = NoRels
    /\ chg = [r \in Rels |-> FALSE]
    /\ cfg = NoCfg
    /\ deltaOf = "none"
    /\ existing = {}
    /\ toAdd = {}
    /\ toRemove = {}
    /\ pendAdd = {}
    /\ pendRemove = {}
    /\ waiting = "none"
    /\ calls = <<>>
    /\ err = "none"
    /\ faults = 0
    /\ passes = 0
    /\ spExists = [s \in Parents |-> TRUE]
    /\ creds = [s \in Parents |-> {}]
    /\ creds0 = creds
    /\ locks = [n \in LockNames |-> 0]
    /\ proc \in [Procs -> {MemberCreateOf(x) : x \in MemberIDs \cup {"m1"}}
                            \cup {MemberDeleteOf(id) : id \in
                                     UNION {MemberIds(x) : x \in MemberIDs}}]

MemberStep(p) ==
    \/ groupMemberResourceCreateAadGraph_Id(p)
    \/ groupMemberResourceCreateAadGraph_Lock(p)
    \/ groupMemberResourceCreateAadGraph_AllMembers(p)
    \/ groupMemberResourceCreateAadGraph_Exists(p)
    \/ groupMemberResourceCreateAadGraph_AddMember(p)
    \/ groupMemberResourceReadAadGraph_Parse(p)
    \/ groupMemberResourceReadAadGraph_AllMembers(p)
    \/ groupMemberResourceReadAadGraph_Find(p)
    \/ groupMemberResourceDeleteAadGraph_Parse(p)
    \/ groupMemberResourceDeleteAadGraph_Lock(p)
    \/ groupMemberResourceDeleteAadGraph_RemoveMember(p)
    \/ groupMemberResourceDeleteAadGraph_Wait(p)

NextMember == \E p \in Procs : MemberStep(p)

SpecMember == InitMember /\ [][NextMember]_vars

\* The password handlers over one list of credentials to start from, or the
\* group-member handlers.
InitLocks ==
    \/ /\ InitLock
       /\ \A s \in Parents : spExists[s] => creds[s] = {"k1"}
    \/ InitMember

NextLocks == NextLock \/ NextMember

\* Every handler that can take a step takes one: its backend calls return
\* and the lock it waits for is handed over once it is free.
LiveLocks ==
    /\ InitLocks
    /\ [][NextLocks]_vars
    /\ \A p \in Procs : WF_vars(NextLocks /\ proc'[p] # proc[p])

\* The handler waits for its lock.
AtLock(p) == proc[p].pc \in {"c_lock", "d_lock", "mc_lock", "md_lock"}

\* The names the handler holds in the lock table.
Held(p) == {n \in LockNames : locks[n] = p}

\* C21: a password or group-member Create or Delete that has returned, with
\* or without an error, holds no lock; a handler holds at most one lock, the
\* one of its parent; every handler returns; and a handler waiting for a
\* lock comes to hold it.
C21_LockReleasedOnEveryPath ==
    /\ [](\A p \in Procs :
            /\ proc[p].pc = "done" => Held(p) = {}
            /\ Held(p) = IF proc[p].locked THEN {LockName(p)} ELSE {})
    /\ <>(\A p \in Procs : proc[p].pc = "done")
    /\ \A p \in Procs : AtLock(p) ~> proc[p].locked

\* A handler has returned an error from under its lock, and the other
\* handler has taken the same lock after it.
C21_Witness ==
    /\ proc[1].pc = "done"
    /\ proc[1].err \in {"list", "update", "add", "remove", "wait"}
    /\ proc[2].locked
    /\ proc[2].pc \in {"c_update", "d_update", "mc_add", "md_wait"}
    /\ LockName(1) = LockName(2)

(***************************************************************************)
(* The owners of an application while applicationSetOwnersTo runs.         *)
(***************************************************************************)
\* C22: from the listing of a pass of applicationSetOwnersTo on, through
\* every call of the pass, each owner that was listed and is desired is
\* still an owner, and when owners were listed and owners are desired the
\* application is never without an owner.
C22_KeptOwnersNeverLost ==
    op = "applicationSetOwnersTo" /\ deltaOf = "owners" =>
        /\ existing \cap desired["owners"] \subseteq rels["owners"]
        /\ existing # {} /\ desired["owners"] # {} => rels["owners"] # {}

\* A pass that replaced an owner and kept another, after its removal.
C22_Witness ==
    /\ op = "applicationSetOwnersTo"
    /\ pc = "done"
    /\ err = "none"
    /\ existing = {"A", "B"}
    /\ desired["owners"] = {"B", "C"}
    /\ rels["owners"] = {"B", "C"}
    /\ \E i \in 1..Len(calls) : calls[i] = Call("RemoveOwner", "owners", {"A"})

(***************************************************************************)
(* applicationValidateRolesScopes, on the values of the app_role and the   *)
(* oauth2_permissions blocks of the configuration.                         *)
(***************************************************************************)
\* The most blocks of one kind in a configuration.
MaxValues == 2

\* The values a block may carry; the empty one is a block without a value.
Values == {"", "read", "write"}

ValueLists == UNION {[1..n -> Values] : n \in 0..MaxValues}

\* No object tracked, no handler running, and the configuration c.
IdleWith(k, c) ==
    /\ EnableMsGraphBeta = FALSE
    /\ kind = k
    /\ exists = FALSE
    /\ visible = FALSE
    /\ rels = NoRels
    /\ resId = ""
    /\ st = NoRels
    /\ op = "none"
    /\ pc = "idle"
    /\ desired = NoRels
    /\ chg = [r \in Rels |-> FALSE]
    /\ cfg = c
    /\ deltaOf = "none"
    /\ existing = {}
    /\ toAdd = {}
    /\ toRemove = {}
    /\ pendAdd = {}
    /\ pendRemove = {}
    /\ waiting = "none"
    /\ calls = <<>>
    /\ err = "none"
    /\ faults = 0
    /\ passes = 0
    /\ PasswordIdle

NonEmpty(val) == val # ""

\* The loop over values: an error at the first value found in encountered,
\* which grows by each value passed.
RECURSIVE Encounter(_, _, _)
Encounter(values, i, encountered) ==
    IF i > Len(values) THEN "none"
    ELSE IF \E k \in 1..Len(encountered) : encountered[k] = values[i]
         THEN "validation"
         ELSE Encounter(values, i + 1, Append(encountered, values[i]))

\* Mutant: the empty values collected like the others.
applicationValidateRolesScopes_KeepsEmpty(appRoles, oauth2Permissions) ==
    Encounter(appRoles \o oauth2Permissions, 1,
              [k \in 1..Len(appRoles \o oauth2Permissions) |-> ""])

\* applicationValidateRolesScopes: the non-empty values of the roles, then
\* of the scopes, are collected; encountered starts as make([]string,
\* len(values)), that many empty strings.
applicationValidateRolesScopes(appRoles, oauth2Permissions) ==
    LET values == SelectSeq(appRoles, NonEmpty) \o SelectSeq(oauth2Permissions, NonEmpty)
    IN Encounter(values, 1, [k \in 1..Len(values) |-> ""])

\* The handler's call of the validation on the configuration.
applicationValidateRolesScopes_Call ==
    /\ pc = "idle"
    /\ op' = "applicationValidateRolesScopes"
    /\ err' = applicationValidateRolesScopes(cfg.app_role_values,
                                             cfg.oauth2_permissions_values)
    /\ pc' = "done"
    /\ UNCHANGED <<backendVars, stateVars, configVars, passwordVars, deltaVars, calls,
                   faults, passes>>

InitRolesScopes ==
    \E r, s \in ValueLists :
        IdleWith("application",
                 [prevent_duplicate_names |-> FALSE, valid |-> TRUE, native |-> FALSE,
                  app_role |-> r # <<>>, oauth2_permissions |-> s # <<>>,
                  available_to_other_tenants |-> FALSE, changed |-> {},
                  app_role_values |-> r, oauth2_permissions_values |-> s])

NextRolesScopes == applicationValidateRolesScopes_Call

SpecRolesScopes == InitRolesScopes /\ [][NextRolesScopes]_vars

\* Some non-empty value occurs twice in the list.
DuplicateValue(list) ==
    \E i, j \in 1..Len(list) : i < j /\ list[i] = list[j] /\ list[i] # ""

\* C23: applicationValidateRolesScopes returns the duplicate-value error
\* exactly when a non-empty value occurs twice in the role values followed
\* by the scope values; empty values conflict with nothing.
C23_DuplicateValueIffError ==
    op = "applicationValidateRolesScopes" /\ pc = "done" =>
        (err = "validation"
            <=> DuplicateValue(cfg.app_role_values \o cfg.oauth2_permissions_values))

\* Two blocks without a value beside a role and a scope of one value.
C23_Witness ==
    /\ op = "applicationValidateRolesScopes"
    /\ pc = "done"
    /\ cfg.app_role_values = <<"", "read">>
    /\ cfg.oauth2_permissions_values = <<"", "read">>
    /\ err = "validation"

(***************************************************************************)
(* msgraph.ApplicationSetAppRoles and ApplicationSetOAuth2PermissionScopes *)
(* on an application whose roles and scopes the backend holds as           *)
(* rels["app_role"] and rels["oauth2_permissions"].                        *)
(***************************************************************************)
\* The most entries of a list of roles or scopes.
MaxEntries == 2

\* A role or a scope: its ID and whether it is enabled.
Entries == [id : {"r1", "r2"}, IsEnabled : BOOLEAN]

EntryLists == UNION {[1..n -> Entries] : n \in 0..MaxEntries}

\* A pointer to a list: nil, or the list.
ListPointers == {[nil |-> TRUE, list |-> <<>>]} \cup {[nil |-> FALSE, list |-> l] : l \in EntryLists}

\* The collection a function sets.
SetField ==
    IF op = "ApplicationSetAppRoles" THEN "app_role" ELSE "oauth2_permissions"

\* if newRoles == nil { newRoles = &[]models.ApplicationAppRole{} }
NewList == IF cfg.new.nil THEN <<>> ELSE cfg.new.list

\* Mutant: the loop writing to a copy of each entry.
Disabled_Copy(list) == list

\* for _, role := range list { *role.IsEnabled = false }: the write goes
\* through the entry's pointer.
Disabled(list) == [k \in 1..Len(list) |-> [list[k] EXCEPT !.IsEnabled = FALSE]]

\* client.Get, then the comparison of the existing list with the new one
\* and the choice of the next step.
ApplicationSet_Get(here, disable, set) ==
    /\ pc = here
    /\ \E o \in CallOutcomes :
        /\ calls' = Append(calls, Call("Get", "object", {}))
        /\ Charge(o)
        /\ CASE o = "ok" ->
                    /\ existing' = rels[SetField]
                    /\ err' = err
                    /\ pc' = IF ~rels[SetField].nil /\ rels[SetField].list = NewList
                             THEN "done"
                             ELSE IF ~rels[SetField].nil /\ Len(rels[SetField].list) > 0
                                  THEN disable
                                  ELSE set
             [] o = "notfound" ->
                    /\ Fail("notfound")
                    /\ UNCHANGED existing
             [] OTHER ->
                    /\ Fail("get")
                    /\ UNCHANGED existing
    /\ UNCHANGED <<backendVars, stateVars, configVars, passwordVars, deltaOf, toAdd,
                   toRemove, pendAdd, pendRemove, waiting, op, passes>>

\* client.Update with the list given; a failed update may or may not have
\* been applied.
ApplicationSet_Update(here, list, e, next) ==
    /\ pc = here
    /\ \E o \in CallOutcomes :
        /\ calls' = Append(calls, Call("Update", SetField, list))
        /\ Charge(o)
        /\ CASE o = "ok" ->
                    /\ rels' = [rels EXCEPT ![SetField] = [nil |-> FALSE, list |-> list]]
                    /\ pc' = next
                    /\ err' = err
             [] o = "error" ->
                    /\ \E applied \in BOOLEAN :
                        rels' = IF applied
                                THEN [rels EXCEPT ![SetField] = [nil |-> FALSE, list |-> list]]
                                ELSE rels
                    /\ Fail(e)
             [] OTHER ->
                    /\ Fail(e)
                    /\ UNCHANGED rels
    /\ UNCHANGED <<EnableMsGraphBeta, kind, exists, visible, stateVars, configVars,
                   passwordVars, deltaVars, op, passes>>

ApplicationSetAppRoles_Get == ApplicationSet_Get("sar_get", "sar_disable", "sar_set")

ApplicationSetAppRoles_Disable ==
    ApplicationSet_Update("sar_disable", Disabled(existing.list), "disable", "sar_set")

ApplicationSetAppRoles_Set == ApplicationSet_Update("sar_set", NewList, "set", "done")

ApplicationSetOAuth2PermissionScopes_Get ==
    ApplicationSet_Get("sos_get", "sos_disable", "sos_set")

ApplicationSetOAuth2PermissionScopes_Disable ==
    ApplicationSet_Update("sos_disable", Disabled(existing.list), "disable", "sos_set")

ApplicationSetOAuth2PermissionScopes_Set ==
    ApplicationSet_Update("sos_set", NewList, "set", "done")

BeginSet(h, first) ==
    /\ pc = "idle"
    /\ op' = h
    /\ pc' = first
    /\ UNCHANGED <<backendVars, stateVars, configVars, passwordVars, deltaVars, calls,
                   err, faults, passes>>

ApplicationSetAppRoles == BeginSet("ApplicationSetAppRoles", "sar_get")

ApplicationSetOAuth2PermissionScopes ==
    BeginSet("ApplicationSetOAuth2PermissionScopes", "sos_get")

InitSet ==
    /\ EnableMsGraphBeta = TRUE
    /\ kind = "application"
    /\ exists \in BOOLEAN
    /\ visible = exists
    /\ \E l \in ListPointers :
        rels = [owners |-> {}, members |-> {}, app_role |-> l, oauth2_permissions |-> l]
    /\ resId = ObjectId
    /\ st = NoRels
    /\ op = "none"
    /\ pc = "idle"
    /\ desired = NoRels
    /\ chg = [r \in Rels |-> FALSE]
    /\ \E n \in ListPointers :
        cfg = [prevent_duplicate_names |-> FALSE, valid |-> TRUE, native |-> FALSE,
               app_role |-> TRUE, oauth2_permissions |-> TRUE,
               available_to_other_tenants |-> FALSE, changed |-> {}, new |-> n]
    /\ deltaOf = "none"
    /\ existing = [nil |-> TRUE, list |-> <<>>]
    /\ toAdd = {}
    /\ toRemove = {}
    /\ pendAdd = {}
    /\ pendRemove = {}
    /\ waiting = "none"
    /\ calls = <<>>
    /\ err = "none"
    /\ faults = 0
    /\ passes = 0
    /\ PasswordIdle

NextSet ==
    \/ ApplicationSetAppRoles
    \/ ApplicationSetAppRoles_Get
    \/ ApplicationSetAppRoles_Disable
    \/ ApplicationSetAppRoles_Set
    \/ ApplicationSetOAuth2PermissionScopes
    \/ ApplicationSetOAuth2PermissionScopes_Get
    \/ ApplicationSetOAuth2PermissionScopes_Disable
    \/ ApplicationSetOAuth2PermissionScopes_Set

SpecSet == InitSet /\ [][NextSet]_vars

SetOps == {"ApplicationSetAppRoles", "ApplicationSetOAuth2PermissionScopes"}

IsSetUpdate(c) == c.call = "Update" /\ c.rel \in {"app_role", "oauth2_permissions"}

\* The updates issued so far.
Updates == SelectSeq(calls, IsSetUpdate)

\* The function got the application: the first call succeeded.
Got == Len(calls) >= 1 /\ ~(pc = "done" /\ err \in {"notfound", "get"})

InitRemoval == InitMember \/ InitReconcile

NextRemoval == NextMember \/ NextReconcile

SpecRemoval == InitRemoval /\ [][NextRemoval]_vars

\* The group-member Delete p returns nil in this step.
DeleteSucceeds(p) ==
    /\ proc[p].op = "member_delete"
    /\ proc[p].pc # "done"
    /\ proc'[p].pc = "done"
    /\ proc'[p].err = "none"

IsWait(c) == c.call = "WaitForListRemove"

\* C25: a group-member Delete returns nil only from a wait that found the
\* member gone from the listing of the group's members; and in the group
\* Update of the AAD Graph backend each removal of a member is followed by
\* the wait for that member, which has succeeded, with the member gone,
\* before any further removal or addition is issued.
C25_RemovalWaitedFor ==
    /\ [][\A p \in Procs : DeleteSucceeds(p) =>
            /\ proc[p].pc = "md_wait"
            /\ proc[p].cid.MemberId \notin Listed
            /\ proc[p].cid.MemberId \notin Listed']_vars
    /\ [](op = "groupResourceUpdateAadGraph" =>
            \A i \in 1..Len(calls) :
                /\ IsRemove(calls[i], "members") /\ i < Len(calls) =>
                    /\ IsWait(calls[i + 1])
                    /\ calls[i + 1].arg = calls[i].arg
                /\ IsRemove(calls[i], "members") /\ i = Len(calls) /\ pc # "done" =>
                    pc = "gua_members_wait" /\ {waiting} = calls[i].arg
                /\ IsWait(calls[i]) /\ i < Len(calls) =>
                    calls[i].arg \cap rels["members"] = {}
                /\ IsWait(calls[i]) /\ pc \in {"gua_members_remove", "gua_members_add"} =>
                    calls[i].arg \cap rels["members"] = {})

\* A Delete has returned nil after a listing that still showed the member;
\* or an Update has removed a member, waited for it, and added one.
C25_Witness ==
    \/ \E p \in Procs :
        /\ proc[p].op = "member_delete"
        /\ proc[p].pc = "done"
        /\ proc[p].err = "none"
        /\ proc[p].cid.MemberId \notin Listed
    \/ /\ op = "groupResourceUpdateAadGraph"
       /\ Len(SelectSeq(calls, IsWait)) = 1
       /\ \E i \in 1..Len(calls) : IsAdd(calls[i], "members")

(***************************************************************************)
(* Two group-member Creates of one member.                                 *)
(***************************************************************************)
\* The Create has listed the members and not yet added its own.
InCheckAndAdd(p) == proc[p].pc \in {"mc_exists", "mc_add"}

\* The Create returned nil with its resource ID set.
Created(p) == Succeeded(p) /\ proc[p].id = GroupMemberIdString(proc[p].cid)

\* C26: of two concurrent group-member Creates of the same member of the
\* group, its ID in whatever case, never both are between the membership check and the add, at most
\* one returns nil, a Create that found the member fails with the
\* already-exists error and sets no resource ID, and when the group exists
\* and no call failed, once both have returned one of them failed that way.
C26_OneCreatePerMember ==
    \A p, q \in Procs :
        p # q /\ proc[p].op = "member_create" /\ proc[q].op = "member_create"
              /\ EqualFold(proc[p].keyId, proc[q].keyId) =>
            /\ ~(InCheckAndAdd(p) /\ InCheckAndAdd(q))
            /\ ~(Created(p) /\ Created(q))
            /\ proc[p].err = "exists" => proc[p].id = <<>>
            /\ proc[p].pc = "done" /\ proc[q].pc = "done" /\ faults = 0 /\ exists =>
                /\ proc[p].err = "exists" \/ proc[q].err = "exists"
                /\ Created(p) => proc[q].err = "exists"
                /\ ~Created(p) /\ ~Created(q) =>
                    proc[p].err = "exists" /\ proc[q].err = "exists"

\* One Create made the member, the other found it.
C26_Witness ==
    /\ proc[1].op = "member_create"
    /\ proc[2].op = "member_create"
    /\ proc[1].keyId = "m1"
    /\ proc[2].keyId = "M1"
    /\ Created(2)
    /\ proc[1].pc = "done"
    /\ proc[1].err = "exists"
    /\ proc[1].id = <<>>
    /\ faults = 0

(***************************************************************************)
(* The credential list a password handler writes back.                     *)
(***************************************************************************)
\* The handler p makes its update call in this step.
WritesBack(p) == proc[p].pc \in {"c_update", "d_update"} /\ proc'[p] # proc[p]

\* C27: the list a password Create writes is the list it read plus its
\* credential, the list a Delete writes is the list it read minus the
\* credential of its key; the list read is the parent's current one, so the
\* other credentials of the parent, and the other parents, are as before.
C27_OtherCredentialsPreserved ==
    [][\A p \in Procs : WritesBack(p) =>
        /\ proc[p].existing = creds[proc[p].cid.ObjectId]
        /\ \/ creds' = creds
           \/ creds' = [creds EXCEPT ![proc[p].cid.ObjectId] =
                            IF proc[p].op = "create"
                            THEN proc[p].existing \cup {proc[p].cid.KeyId}
                            ELSE proc[p].existing \ {proc[p].cid.KeyId}]
        /\ \A s \in Parents :
            creds'[s] \ {proc[p].cid.KeyId} = creds[s] \ {proc[p].cid.KeyId}]_vars

\* A Create and a Delete on one parent are through, the credential k0
\* still there.
C27_Witness ==
    /\ Succeeded(1)
    /\ Succeeded(2)
    /\ proc[1].op = "create"
    /\ proc[2].op = "delete"
    /\ proc[1].cid.ObjectId = "sp1"
    /\ proc[2].cid.ObjectId = "sp1"
    /\ creds0["sp1"] = {"k0", "k2"}
    /\ creds["sp1"] = {"k0", "k1"}
    /\ creds["sp2"] = creds0["sp2"]

(***************************************************************************)
(* The resource ID of a password Create.                                   *)
(***************************************************************************)
\* C28: a password Create whose key is in the list it read returns the
\* already-exists error at once, with no update call and no resource ID;
\* and a Create's resource ID is set only in the step in which its update
\* call succeeds, so a Create that failed before or in that call has none.
C28_IdSetAfterUpdate ==
    /\ [][\A p \in Procs : proc[p].op = "create" /\ proc'[p] # proc[p] =>
            /\ proc[p].pc = "c_add" /\ proc[p].cid.KeyId \in proc[p].existing =>
                /\ proc'[p].pc = "done"
                /\ proc'[p].err = "exists"
                /\ proc'[p].id = <<>>
                /\ creds' = creds
            /\ proc'[p].id # proc[p].id /\ proc'[p].id # <<>> =>
                /\ proc[p].pc = "c_update"
                /\ proc'[p].pc = "c_wait"
                /\ proc'[p].id = CredentialIdString(proc[p].cid)
                /\ proc[p].cid.KeyId \in creds'[proc[p].cid.ObjectId]]_vars
    /\ [](\A p \in Procs :
            proc[p].op = "create"
                /\ proc[p].err \in {"credential", "exists", "update"} =>
                    proc[p].id = <<>>)

\* A Create of a key the parent already holds has failed.
C28_Witness ==
    \E p \in Procs :
        /\ proc[p].op = "create"
        /\ proc[p].pc = "done"
        /\ proc[p].err = "exists"
        /\ proc[p].id = <<>>
        /\ proc[p].cid.KeyId \in creds0[proc[p].cid.ObjectId]
        /\ creds = creds0

(***************************************************************************)
(* The expansion of the app_role and oauth2_permissions blocks of the      *)
(* configuration into the payload, on both backends.                       *)
(***************************************************************************)
\* A block of the configuration: its id, empty when it has none yet.
Blocks == [id : {"", "r1", "r2"}, is_enabled : BOOLEAN]

BlockLists == UNION {[1..n -> Blocks] : n \in 0..MaxEntries}

\* What uuid.GenerateUUID may return.
UUIDs == {"u1", "u2"}

\* The payloads of an expansion that keeps the id of a block that has one
\* and generates the id of a block that has none.
ExpandKeepingIds(input) ==
    {out \in [1..Len(input) -> [id : {"r1", "r2"} \cup UUIDs, IsEnabled : BOOLEAN]] :
        \A k \in 1..Len(input) :
            /\ out[k].IsEnabled = input[k].is_enabled
            /\ IF input[k].id = "" THEN out[k].id \in UUIDs ELSE out[k].id = input[k].id}

\* The payloads of an expansion that generates the id of every block.
ExpandGeneratingIds(input) ==
    {out \in [1..Len(input) -> [id : UUIDs, IsEnabled : BOOLEAN]] :
        \A k \in 1..Len(input) : out[k].IsEnabled = input[k].is_enabled}

\* The expansion named h gives one of the payloads outs.
Expand(h, field, outs) ==
    /\ pc = "idle"
    /\ op' = h
    /\ pc' = "done"
    /\ \E out \in outs : calls' = <<Call(h, field, out)>>
    /\ UNCHANGED <<backendVars, stateVars, configVars, passwordVars, deltaVars, err,
                   faults, passes>>

\* expandApplicationAppRoles of the AAD Graph backend
expandApplicationAppRoles ==
    Expand("expandApplicationAppRoles", "app_role", ExpandKeepingIds(cfg.blocks))

\* expandApplicationOAuth2Permissions of the AAD Graph backend
expandApplicationOAuth2Permissions ==
    Expand("expandApplicationOAuth2Permissions", "oauth2_permissions",
           ExpandKeepingIds(cfg.blocks))

\* expandApplicationAppRoles of the MS Graph backend: id, _ :=
\* uuid.GenerateUUID() for every role.
expandApplicationAppRolesMsGraph ==
    Expand("expandApplicationAppRolesMsGraph", "app_role", ExpandGeneratingIds(cfg.blocks))

\* expandApplicationOAuth2Permissions of the MS Graph backend
expandApplicationOAuth2PermissionsMsGraph ==
    Expand("expandApplicationOAuth2PermissionsMsGraph", "oauth2_permissions",
           ExpandKeepingIds(cfg.blocks))

InitExpand ==
    \E b \in BlockLists :
        IdleWith("application",
                 [prevent_duplicate_names |-> FALSE, valid |-> TRUE, native |-> FALSE,
                  app_role |-> TRUE, oauth2_permissions |-> TRUE,
                  available_to_other_tenants |-> FALSE, changed |-> {}, blocks |-> b])

NextExpand ==
    \/ expandApplicationAppRoles
    \/ expandApplicationOAuth2Permissions
    \/ expandApplicationAppRolesMsGraph
    \/ expandApplicationOAuth2PermissionsMsGraph

SpecExpand == InitExpand /\ [][NextExpand]_vars

\* C29: in the payload of every expansion, on both backends, an entry whose
\* block carries an id has that id, and an entry whose block has none has a
\* generated one.
C29_IdsKept ==
    pc = "done" /\ calls # <<>> =>
        \A k \in 1..Len(cfg.blocks) :
            IF cfg.blocks[k].id = ""
            THEN calls[1].arg[k].id \in UUIDs
            ELSE calls[1].arg[k].id = cfg.blocks[k].id

(***************************************************************************)
(* The data sources that read several objects: the groups of both          *)
(* backends and the users.  existing is the list collected so far, and     *)
(* every identifier handled leaves one call in calls.                      *)
(***************************************************************************)
\* The most identifiers of a request.
MaxRequest == 2

\* The identifiers a request may name, and the objects of the directory each
\* one matches: one, two groups of one display name, or none.
Identifiers == {"a", "b", "dup", "zz"}

Matches(v) ==
    CASE v = "a" -> {"A"}
      [] v = "b" -> {"B"}
      [] v = "dup" -> {"C", "D"}
      [] OTHER -> {}

Requests == UNION {[1..n -> Identifiers] : n \in 0..MaxRequest}

\* The configuration of a multi-object read: the attribute the identifiers
\* are given in, the identifiers, and ignore_missing.
MultiCfgs ==
    {[prevent_duplicate_names |-> FALSE, valid |-> TRUE, native |-> FALSE,
      app_role |-> FALSE, oauth2_permissions |-> FALSE,
      available_to_other_tenants |-> FALSE, changed |-> {},
      by |-> b, request |-> r, ignore_missing |-> i] :
        b \in {"display_names", "object_ids", "user_principal_names", "mail_nicknames"},
        r \in Requests, i \in BOOLEAN}

\* The identifier the loop is at.
Current == cfg.request[Len(calls) + 1]

\* Mutant: the object found put in front of the list.
Collect_InFront(list, obj) == <<obj>> \o list

\* groups = append(groups, ...), users = append(users, ...)
Collect(list, obj) == Append(list, obj)

\* What a lookup of one identifier may answer.
LookupOutcomes == {"ok"} \cup (IF faults < MaxFaults THEN {"error"} ELSE {})

\* One pass of the loop over the identifiers: the lookup of the current one;
\* its error is returned; no match is returned as an error unless skip; more
\* than one match is an error; the one match is collected.
Each(here, name, skip, finish) ==
    /\ pc = here
    /\ IF Len(calls) = Len(cfg.request)
       THEN /\ pc' = finish
            /\ UNCHANGED <<existing, calls, err, faults>>
       ELSE \E o \in LookupOutcomes :
            /\ calls' = Append(calls, Call(name, "object", {Current}))
            /\ Charge(o)
            /\ CASE o = "error" ->
                        /\ Fail("lookup")
                        /\ UNCHANGED existing
                 [] o = "ok" /\ Matches(Current) = {} ->
                        IF skip
                        THEN UNCHANGED <<existing, pc, err>>
                        ELSE /\ Fail("notfound")
                             /\ UNCHANGED existing
                 [] o = "ok" /\ Cardinality(Matches(Current)) > 1 ->
                        /\ Fail("ambiguous")
                        /\ UNCHANGED existing
                 [] OTHER ->
                        /\ existing' = Collect(existing, CHOOSE x \in Matches(Current) : TRUE)
                        /\ UNCHANGED <<pc, err>>
    /\ UNCHANGED <<backendVars, stateVars, configVars, passwordVars, deltaOf, toAdd,
                   toRemove, pendAdd, pendRemove, waiting, op, passes>>

\* The check of the number collected, unless lenient, then d.SetId.
Finish(here, lenient, id) ==
    /\ pc = here
    /\ IF ~lenient /\ Len(existing) # Len(cfg.request)
       THEN /\ Fail("count")
            /\ UNCHANGED resId
       ELSE /\ pc' = "done"
            /\ err' = err
            /\ resId' = id
    /\ UNCHANGED <<backendVars, st, configVars, passwordVars, deltaVars, op, calls,
                   faults, passes>>

groupsDataSourceReadMsGraph_Each ==
    Each("gpm_each", IF cfg.by = "display_names" THEN "List" ELSE "Get", FALSE, "gpm_finish")

groupsDataSourceReadMsGraph_Finish == Finish("gpm_finish", FALSE, "groups#")

\* names = v.([]string) on the value of a list attribute, a []interface{}:
\* the type assertion panics.
groupsDataSourceReadAadGraph_Names ==
    /\ pc = "gpa_names"
    /\ IF cfg.by = "display_names" /\ cfg.request # <<>>
       THEN Fail("panic")
       ELSE /\ pc' = "gpa_each"
            /\ err' = err
    /\ UNCHANGED <<backendVars, stateVars, configVars, passwordVars, deltaVars, op, calls,
                   faults, passes>>

groupsDataSourceReadAadGraph_Each == Each("gpa_each", "Get", FALSE, "gpa_finish")

groupsDataSourceReadAadGraph_Finish == Finish("gpa_finish", FALSE, "groups#")

usersDataRead_Each ==
    Each("ud_each",
         CASE cfg.by = "user_principal_names" -> "Get"
           [] cfg.by = "object_ids" -> "UserGetByObjectId"
           [] OTHER -> "UserGetByMailNickname",
         cfg.ignore_missing, "ud_finish")

usersDataRead_Finish == Finish("ud_finish", cfg.ignore_missing, "users#")

BeginMulti(h, first) ==
    /\ pc = "idle"
    /\ op' = h
    /\ pc' = first
    /\ UNCHANGED <<backendVars, stateVars, configVars, passwordVars, deltaVars, calls,
                   err, faults, passes>>

groupsDataSourceReadMsGraph ==
    /\ kind = "group"
    /\ EnableMsGraphBeta
    /\ BeginMulti("groupsDataSourceReadMsGraph", "gpm_each")

groupsDataSourceReadAadGraph ==
    /\ kind = "group"
    /\ ~EnableMsGraphBeta
    /\ BeginMulti("groupsDataSourceReadAadGraph", "gpa_names")

usersDataRead ==
    /\ kind = "user"
    /\ BeginMulti("usersDataRead", "ud_each")

InitMulti ==
    /\ EnableMsGraphBeta \in BOOLEAN
    /\ kind \in {"group", "user"}
    /\ exists = TRUE
    /\ visible = TRUE
    /\ rels = NoRels
    /\ resId = ""
    /\ st = NoRels
    /\ op = "none"
    /\ pc = "idle"
    /\ desired = NoRels
    /\ chg = [r \in Rels |-> FALSE]
    /\ cfg \in MultiCfgs
    /\ kind = "group" => cfg.by \in {"display_names", "object_ids"} /\ ~cfg.ignore_missing
    /\ kind = "user" => cfg.by # "display_names" /\ ~EnableMsGraphBeta
    /\ cfg.by # "display_names" => \A k \in 1..Len(cfg.request) : cfg.request[k] # "dup"
    /\ deltaOf = "none"
    /\ existing = <<>>
    /\ toAdd = {}
    /\ toRemove = {}
    /\ pendAdd = {}
    /\ pendRemove = {}
    /\ waiting = "none"
    /\ calls = <<>>
    /\ err = "none"
    /\ faults = 0
    /\ passes = 0
    /\ PasswordIdle

NextMulti ==
    \/ groupsDataSourceReadMsGraph
    \/ groupsDataSourceReadMsGraph_Each
    \/ groupsDataSourceReadMsGraph_Finish
    \/ groupsDataSourceReadAadGraph
    \/ groupsDataSourceReadAadGraph_Names
    \/ groupsDataSourceReadAadGraph_Each
    \/ groupsDataSourceReadAadGraph_Finish
    \/ usersDataRead
    \/ usersDataRead_Each
    \/ usersDataRead_Finish

SpecMulti == InitMulti /\ [][NextMulti]_vars

\* The objects of the identifiers that match one, in the order of the list.
RECURSIVE FoundOf(_)
FoundOf(request) ==
    IF request = <<>> THEN <<>>
    ELSE (IF Cardinality(Matches(Head(request))) = 1
          THEN <<CHOOSE x \in Matches(Head(request)) : TRUE>> ELSE <<>>)
         \o FoundOf(Tail(request))

Returned == op # "none" /\ pc = "done"

====
